---- MODULE Spec2Model ----
(***************************************************************************)
(* Ingestion synchronisation engine of finx_sidekick: digest store         *)
(* (database.py), source client and hybrid fetch (main.py), the refresh    *)
(* pipeline (main.py refresh_brief_logic) and its cursor stores            *)
(* (storage.py state.json, database.py account_tracking).                  *)
(*                                                                         *)
(* Python strings are sequences of one-character strings; None, where a    *)
(* str may be absent, is the sequence without characters (no id or text    *)
(* of the program is the empty str).                                       *)
(***************************************************************************)
EXTENDS Integers, Sequences, FiniteSets, TLC

None == <<>>

(***************************************************************************)
(* Bounds of the model.                                                    *)
(***************************************************************************)
MaxRows == 2      \* rows the summaries table may hold

(***************************************************************************)
(* Python str / int / sorted on strings.                                   *)
(***************************************************************************)
DigitChar == <<"0", "1", "2", "3", "4", "5", "6", "7", "8", "9">>

RECURSIVE IntToStr(_)
IntToStr(n) ==
    IF n < 10 THEN <<DigitChar[n + 1]>>
    ELSE Append(IntToStr(n \div 10), DigitChar[(n % 10) + 1])

CharToDigit(c) == CHOOSE d \in 0..9 : DigitChar[d + 1] = c

RECURSIVE StrToInt(_)
StrToInt(s) ==
    IF Len(s) = 0 THEN 0
    ELSE 10 * StrToInt(SubSeq(s, 1, Len(s) - 1)) + CharToDigit(s[Len(s)])

\* Python's < on str: first differing character decides, a proper prefix is smaller
RECURSIVE StrLess(_, _)
StrLess(s, t) ==
    IF Len(t) = 0 THEN FALSE
    ELSE IF Len(s) = 0 THEN TRUE
    ELSE IF s[1] = t[1] THEN StrLess(Tail(s), Tail(t))
    ELSE CharToDigit(s[1]) < CharToDigit(t[1])

\* sorted(set(...)) on a set of str
RECURSIVE SortedStrs(_)
SortedStrs(S) ==
    IF S = {} THEN <<>>
    ELSE LET m == CHOOSE x \in S : \A y \in S \ {x} : StrLess(x, y)
         IN  <<m>> \o SortedStrs(S \ {m})

\* an element of a tweet_ids list is an int or a str
IntItem(n) == [kind |-> "int", n |-> n]
StrItem(s) == [kind |-> "str", s |-> s]

\* str(tid): decimal digits of an int, a str unchanged
PyStr(tid) == IF tid.kind = "int" THEN IntToStr(tid.n) ELSE tid.s

\* json.dumps of a list of str: ["a", "b"]
RECURSIVE JsonItems(_)
JsonItems(xs) ==
    IF Len(xs) = 0 THEN <<>>
    ELSE IF Len(xs) = 1 THEN <<"\"">> \o xs[1] \o <<"\"">>
    ELSE <<"\"">> \o xs[1] \o <<"\"", ",", " ">> \o JsonItems(Tail(xs))

JsonDumps(xs) == <<"[">> \o JsonItems(xs) \o <<"]">>

\* json.loads of such a text: the strings between the quotes
RECURSIVE JsonStrings(_, _, _)
JsonStrings(toks, inside, cur) ==
    IF Len(toks) = 0 THEN <<>>
    ELSE IF toks[1] = "\""
         THEN IF inside THEN <<cur>> \o JsonStrings(Tail(toks), FALSE, <<>>)
              ELSE JsonStrings(Tail(toks), TRUE, <<>>)
    ELSE IF inside THEN JsonStrings(Tail(toks), TRUE, Append(cur, toks[1]))
    ELSE JsonStrings(Tail(toks), FALSE, cur)

JsonLoads(text) == JsonStrings(text, FALSE, <<>>)

Range(f) == {f[i] : i \in DOMAIN f}

Min(a, b) == IF a < b THEN a ELSE b

RECURSIVE Flatten(_)
Flatten(seqs) == IF Len(seqs) = 0 THEN <<>> ELSE seqs[1] \o Flatten(Tail(seqs))

RECURSIVE Reverse(_)
Reverse(s) == IF Len(s) = 0 THEN <<>> ELSE Append(Reverse(Tail(s)), s[1])

VARIABLES
    summaries,     \* database.py summaries table: rows in insertion order
    saved          \* the last save_summary call: tweet_ids and generation_timestamp given, id returned

VARIABLES
    call,          \* a Source Client call looked at alone: its arguments and what the API answers
    ret            \* what that call returned

VARIABLES
    TWITTER_API_KEY, \* whether the key is configured
    now,           \* the wall clock, in ticks
    posted         \* per account the tweets the upstream holds, oldest first

VARIABLES
    session_context,   \* state.json "session_context", per handle
    account_tracking,  \* database.py account_tracking table, per handle
    monitored          \* state.json "monitored_accounts" as add_account and remove_account leave it

VARIABLES
    fires,             \* per trigger the locals of its _scheduled_refresh task
    scheduler_logs,    \* database.py scheduler_logs rows
    handed,            \* what the last fetch of an account was handed and what was stored then
    aggregated         \* ids that were part of all_new_tweets of some fire

VARIABLES
    config_json,       \* config.json "scheduler": enabled, paused
    manager,           \* the process's SchedulerManager and its AsyncIOScheduler
    running,           \* per trigger the _scheduled_refresh tasks under way
    begun,             \* the fires begun by the latest step: trigger and run time
    pause_span,        \* when pause() last took effect and when resume() ended it
    boot               \* how many times the process was started

digestVars == <<summaries, saved>>
callVars == <<call, ret>>
worldVars == <<TWITTER_API_KEY, now, posted>>
storeVars == <<session_context, account_tracking, monitored>>
fireVars == <<fires, scheduler_logs, handed, aggregated>>
managerVars == <<config_json, manager, running, begun, pause_span, boot>>
vars == <<digestVars, callVars, worldVars, storeVars, fireVars, managerVars>>

(***************************************************************************)
(* database.py save_summary                                                *)
(***************************************************************************)
\* (mutation of NormalizeTweetIds: stringified, neither de-duplicated nor sorted)
NormalizeTweetIdsAsGiven(tweet_ids) == [i \in 1..Len(tweet_ids) |-> PyStr(tweet_ids[i])]

\* normalized_tweet_ids = sorted(set(str(tid) for tid in tweet_ids))
NormalizeTweetIds(tweet_ids) == SortedStrs({PyStr(tid) : tid \in Range(tweet_ids)})

\* SELECT id FROM summaries WHERE tweet_ids = ? ORDER BY timestamp DESC LIMIT 1
ExistingSummary(rows, tweet_ids_json) ==
    LET hits == {i \in 1..Len(rows) : rows[i].tweet_ids = tweet_ids_json}
    IN  IF hits = {} THEN 0
        ELSE CHOOSE i \in hits : \A j \in hits : rows[j].timestamp <= rows[i].timestamp

\* (mutation of save_summary: the UPDATE also sets timestamp)
save_summary_restamp(rows, summary, tweet_ids, generation_timestamp) ==
    LET tweet_ids_json == JsonDumps(NormalizeTweetIds(tweet_ids))
        existing == ExistingSummary(rows, tweet_ids_json)
    IN  IF existing # 0
        THEN [rows |-> [rows EXCEPT ![existing].summary = summary,
                                    ![existing].timestamp = generation_timestamp],
              summary_id |-> rows[existing].id]
        ELSE [rows |-> Append(rows, [id |-> Len(rows) + 1,
                                     timestamp |-> generation_timestamp,
                                     summary |-> summary,
                                     tweet_ids |-> tweet_ids_json]),
              summary_id |-> Len(rows) + 1]

\* the table after the call, and the id returned
save_summary(rows, summary, tweet_ids, generation_timestamp) ==
    LET tweet_ids_json == JsonDumps(NormalizeTweetIds(tweet_ids))
        existing == ExistingSummary(rows, tweet_ids_json)
    IN  IF existing # 0
        THEN [rows |-> [rows EXCEPT ![existing].summary = summary],
              summary_id |-> rows[existing].id]
        ELSE [rows |-> Append(rows, [id |-> Len(rows) + 1,
                                     timestamp |-> generation_timestamp,
                                     summary |-> summary,
                                     tweet_ids |-> tweet_ids_json]),
              summary_id |-> Len(rows) + 1]


(***************************************************************************)
(* main.py Source Client: fetch_tweets (by id) and                         *)
(* fetch_tweets_advanced_search (by time window).  A tweet is known by     *)
(* str(tweet.get("id_str") or tweet.get("id")).  Both calls are            *)
(* synchronous (httpx.Client): nothing else runs during one.               *)
(***************************************************************************)
MaxPagesFirstRun == 5    \* max_pages when since_id is None
MaxPagesSinceId == 10    \* max_pages otherwise

\* what request number n meets: "ok", "error" (status == "error" in the
\* body) or "exception" (request or raise_for_status raises)
Outcome(outcomes, n) == IF n <= Len(outcomes) THEN outcomes[n] ELSE "ok"

\* the API's answer to a request with the given cursor (0: no cursor parameter)
PageIndex(c) == IF c = 0 THEN 1 ELSE c
ResponseTweets(pages, c) ==
    IF PageIndex(c) <= Len(pages) THEN pages[PageIndex(c)] ELSE <<>>
ResponseHasNextPage(pages, c) == PageIndex(c) < Len(pages)
ResponseNextCursor(pages, c) ==
    IF ResponseHasNextPage(pages, c) THEN PageIndex(c) + 1 ELSE 0

\* tweet_id_int > since_id_int
IsNewer(tweet_id_str, since_id_str) == StrToInt(tweet_id_str) > StrToInt(since_id_str)

\* the for loop over one page: tweets kept, and whether since_id itself was seen
RECURSIVE FilterPage(_, _)
FilterPage(tweets, since_id_str) ==
    IF Len(tweets) = 0 THEN [filtered_tweets |-> <<>>, found_since_id |-> FALSE]
    ELSE LET rest == FilterPage(Tail(tweets), since_id_str)
         IN  IF StrToInt(tweets[1]) = StrToInt(since_id_str)
             THEN [rest EXCEPT !.found_since_id = TRUE]
             ELSE IF IsNewer(tweets[1], since_id_str)
             THEN [rest EXCEPT !.filtered_tweets = <<tweets[1]>> \o @]
             ELSE rest

\* how a Source Client call ends: "returned" (the list built), "failed" ([]
\* from an except branch) or "raised"; page_count requests were made and the
\* pages in fetched were received with tweets
CallEnd(status, tweets, page_count, fetched) ==
    [status |-> status, tweets |-> tweets, page_count |-> page_count,
     fetched |-> fetched]

\* (mutation of max_pages: the first-run limit is not applied)
max_pages_always_ten(since_id) == MaxPagesSinceId

\* max_pages = 5 if since_id is None else 10
max_pages(since_id) ==
    IF since_id = None THEN MaxPagesFirstRun ELSE MaxPagesSinceId

\* the while loop of fetch_tweets from its page_count-th pass on
RECURSIVE fetch_tweets_loop(_, _, _, _, _, _, _)
fetch_tweets_loop(pages, since_id, outcomes, page_count, cursor, all_tweets, fetched) ==
    LET n == page_count + 1
        tweets == ResponseTweets(pages, cursor)
        f == FilterPage(tweets, since_id)
        kept == IF since_id # None THEN all_tweets \o f.filtered_tweets
                ELSE all_tweets \o tweets
        next_cursor == ResponseNextCursor(pages, cursor)
    IN  IF page_count >= max_pages(since_id)
        THEN CallEnd("returned", all_tweets, page_count, fetched)
        ELSE IF Outcome(outcomes, n) = "exception"
        THEN CallEnd("failed", <<>>, n, fetched)
        ELSE IF Outcome(outcomes, n) = "error"
        THEN CallEnd("returned", all_tweets, n, fetched)
        ELSE IF Len(tweets) = 0
        THEN CallEnd("returned", all_tweets, n, fetched)
        ELSE IF \/ (since_id # None /\ f.found_since_id
                                    /\ Len(f.filtered_tweets) = 0)
                \/ ~ResponseHasNextPage(pages, cursor)
                \/ next_cursor = 0
        THEN CallEnd("returned", kept, n, Append(fetched, tweets))
        ELSE fetch_tweets_loop(pages, since_id, outcomes, n, next_cursor,
                               kept, Append(fetched, tweets))

\* fetch_tweets(handle, since_id) against a timeline the API pages as pages
fetch_tweets(key, pages, since_id, outcomes) ==
    IF ~key THEN CallEnd("raised", <<>>, 0, <<>>)
    ELSE fetch_tweets_loop(pages, since_id, outcomes, 0, 0, <<>>, <<>>)

\* the while True loop of fetch_tweets_advanced_search
RECURSIVE advanced_search_loop(_, _, _, _, _, _)
advanced_search_loop(pages, outcomes, page_count, next_cursor, all_tweets, fetched) ==
    LET n == page_count + 1
        tweets == ResponseTweets(pages, next_cursor)
        kept == all_tweets \o tweets
        got == IF Len(tweets) = 0 THEN fetched ELSE Append(fetched, tweets)
    IN  IF Outcome(outcomes, n) = "exception"
        THEN CallEnd("failed", <<>>, n, fetched)
        ELSE IF Outcome(outcomes, n) = "error"
        THEN CallEnd("returned", all_tweets, n, fetched)
        ELSE IF \/ ~ResponseHasNextPage(pages, next_cursor)
                \/ ResponseNextCursor(pages, next_cursor) = 0
        THEN CallEnd("returned", kept, n, got)
        ELSE advanced_search_loop(pages, outcomes, n,
                                  ResponseNextCursor(pages, next_cursor),
                                  kept, got)

\* fetch_tweets_advanced_search(handle, since_timestamp_utc) when the tweets
\* of the window since..now come as pages (every timestamp the program hands
\* in is one it wrote with isoformat(), which fromisoformat parses)
fetch_tweets_advanced_search(key, pages, outcomes) ==
    IF ~key THEN CallEnd("raised", <<>>, 0, <<>>)
    ELSE advanced_search_loop(pages, outcomes, 0, 0, <<>>, <<>>)

(***************************************************************************)
(* main.py fetch_tweets_hybrid                                             *)
(***************************************************************************)
\* last_fetch_timestamp_utc is None; the clock starts at 1
NoTime == 0

SearchCall(since_timestamp_utc) ==
    [fn |-> "fetch_tweets_advanced_search",
     since_timestamp_utc |-> since_timestamp_utc]
FetchCall(since_id) == [fn |-> "fetch_tweets", since_id |-> since_id]

HybridEnd(status, tweets, calls) ==
    [status |-> status, tweets |-> tweets, calls |-> calls]

\* (mutation of fetch_tweets_hybrid: an empty window is reported at once)
fetch_tweets_hybrid_no_fallback(since_id, last_fetch_timestamp_utc, api) ==
    LET after(calls) ==
            IF since_id # None
            THEN IF api.fetch_since.status = "raised"
                 THEN HybridEnd("returned", <<>>, Append(calls, FetchCall(since_id)))
                 ELSE HybridEnd("returned", api.fetch_since.tweets,
                                Append(calls, FetchCall(since_id)))
            ELSE IF api.search_default.status # "raised"
                 THEN HybridEnd("returned", api.search_default.tweets,
                                Append(calls, SearchCall(NoTime)))
                 ELSE HybridEnd(IF api.fetch_all.status = "raised"
                                THEN "raised" ELSE "returned",
                                api.fetch_all.tweets,
                                calls \o <<SearchCall(NoTime), FetchCall(None)>>)
        search == <<SearchCall(last_fetch_timestamp_utc)>>
    IN  IF last_fetch_timestamp_utc # NoTime
        THEN IF api.search_since.status = "raised" THEN after(search)
             ELSE HybridEnd("returned", api.search_since.tweets, search)
        ELSE after(<<>>)

\* (mutation of fetch_tweets_hybrid: fetch_tweets is called after a search
\* that returned tweets too, and what it returns is added)
fetch_tweets_hybrid_always_by_id(since_id, last_fetch_timestamp_utc, api) ==
    LET after(calls) ==
            IF since_id # None
            THEN IF api.fetch_since.status = "raised"
                 THEN HybridEnd("returned", <<>>, Append(calls, FetchCall(since_id)))
                 ELSE HybridEnd("returned", api.fetch_since.tweets,
                                Append(calls, FetchCall(since_id)))
            ELSE IF api.search_default.status # "raised"
                 THEN HybridEnd("returned", api.search_default.tweets,
                                Append(calls, SearchCall(NoTime)))
                 ELSE HybridEnd(IF api.fetch_all.status = "raised"
                                THEN "raised" ELSE "returned",
                                api.fetch_all.tweets,
                                calls \o <<SearchCall(NoTime), FetchCall(None)>>)
        search == <<SearchCall(last_fetch_timestamp_utc)>>
    IN  IF last_fetch_timestamp_utc # NoTime
        THEN IF api.search_since.status = "raised" THEN after(search)
             ELSE IF since_id # None
             THEN IF api.fetch_since.status # "raised"
                  THEN HybridEnd("returned",
                                 api.search_since.tweets \o api.fetch_since.tweets,
                                 Append(search, FetchCall(since_id)))
                  ELSE HybridEnd("returned", api.search_since.tweets,
                                 Append(search, FetchCall(since_id)))
             ELSE HybridEnd("returned", api.search_since.tweets, search)
        ELSE after(<<>>)

\* api: what each Source Client call the function may make would end with
\* (search_since, search_default, fetch_since, fetch_all)
fetch_tweets_hybrid(since_id, last_fetch_timestamp_utc, api) ==
    LET \* the code after the "if last_fetch_timestamp_utc:" block
        after(calls) ==
            IF since_id # None
            THEN IF api.fetch_since.status = "raised"
                 THEN HybridEnd("returned", <<>>, Append(calls, FetchCall(since_id)))
                 ELSE HybridEnd("returned", api.fetch_since.tweets,
                                Append(calls, FetchCall(since_id)))
            ELSE IF api.search_default.status # "raised"
                 THEN HybridEnd("returned", api.search_default.tweets,
                                Append(calls, SearchCall(NoTime)))
                 ELSE HybridEnd(IF api.fetch_all.status = "raised"
                                THEN "raised" ELSE "returned",
                                api.fetch_all.tweets,
                                calls \o <<SearchCall(NoTime), FetchCall(None)>>)
        search == <<SearchCall(last_fetch_timestamp_utc)>>
    IN  IF last_fetch_timestamp_utc # NoTime
        THEN IF api.search_since.status = "raised" THEN after(search)
             ELSE IF Len(api.search_since.tweets) > 0
             THEN HybridEnd("returned", api.search_since.tweets, search)
             ELSE IF since_id # None
             THEN IF /\ api.fetch_since.status # "raised"
                     /\ Len(api.fetch_since.tweets) > 0
                  THEN HybridEnd("returned", api.fetch_since.tweets,
                                 Append(search, FetchCall(since_id)))
                  ELSE HybridEnd("returned", <<>>,
                                 Append(search, FetchCall(since_id)))
             ELSE HybridEnd("returned", <<>>, search)
        ELSE after(<<>>)


(***************************************************************************)
(* holidays.py                                                             *)
(***************************************************************************)
US_MARKET_HOLIDAYS ==
    { <<2025, 1, 1>>, <<2025, 1, 20>>, <<2025, 2, 17>>, <<2025, 4, 18>>,
      <<2025, 5, 26>>, <<2025, 6, 19>>, <<2025, 7, 4>>, <<2025, 9, 1>>,
      <<2025, 11, 27>>, <<2025, 12, 25>>,
      <<2026, 1, 1>>, <<2026, 1, 19>>, <<2026, 2, 16>>, <<2026, 4, 3>>,
      <<2026, 5, 25>>, <<2026, 6, 19>>, <<2026, 7, 3>>, <<2026, 9, 7>>,
      <<2026, 11, 26>>, <<2026, 12, 25>>,
      <<2027, 1, 1>>, <<2027, 1, 18>>, <<2027, 2, 15>>, <<2027, 3, 26>>,
      <<2027, 5, 31>>, <<2027, 6, 18>>, <<2027, 7, 5>>, <<2027, 9, 6>>,
      <<2027, 11, 25>>, <<2027, 12, 24>> }

\* a date: (year, month, day) and date.weekday() (0 Monday .. 6 Sunday)
Date(ymd, weekday) == [ymd |-> ymd, weekday |-> weekday]

\* Friday 3 July 2026 (a holiday), the Saturday, Sunday and Monday after it,
\* and Christmas 2026 (a Friday)
Dates ==
    { Date(<<2026, 7, 3>>, 4), Date(<<2026, 7, 4>>, 5), Date(<<2026, 7, 5>>, 6),
      Date(<<2026, 7, 6>>, 0), Date(<<2026, 12, 25>>, 4) }

is_market_holiday(check_date) == check_date.ymd \in US_MARKET_HOLIDAYS

is_weekend(check_date) == check_date.weekday >= 5

\* (mutation of should_fetch_today: holidays are not looked up)
should_fetch_today_weekends_only(check_date) == ~is_weekend(check_date)

should_fetch_today(check_date) ==
    IF is_weekend(check_date) THEN FALSE
    ELSE IF is_market_holiday(check_date) THEN FALSE
    ELSE TRUE

(***************************************************************************)
(* The upstream, the cursor stores and the refresh pipeline                *)
(* (scheduler.py _scheduled_refresh, main.py refresh_brief_logic).         *)
(***************************************************************************)
MaxTime == 3        \* ticks the clock may reach
MaxTweets == 2      \* tweets posted in all
MaxFires == 2       \* _scheduled_refresh tasks started in all
PageSize == 2       \* tweets per page of the API
FirstTweetId == 9   \* id of the first tweet posted; ids grow with time
LastHour == 1       \* timedelta(hours=1), in ticks
max_attempts == 2   \* config.json retry.max_attempts (3 when not set)

\* state.json "monitored_accounts"
monitored_accounts == <<"alice", "bob">>
Handles == Range(monitored_accounts)

\* the triggers whose tasks are followed: trigger_now, and the market hours job
Triggers == {"manual", "market_hours"}

\* a last_tweet_id an earlier version of the program left in state.json
LegacyTweetIds == {None, IntToStr(FirstTweetId - 1)}

Orders == {"newest_first", "oldest_first"}
\* request outcomes of one Source Client call (later requests are "ok")
OutcomeSeqs == {<<>>, <<"exception">>, <<"error">>, <<"ok", "exception">>}
\* the same for the calls of one account's fetch in a fire: all well, or the
\* first request raises
FireOutcomeSeqs == {<<>>, <<"exception">>}
GeneratorOutcomes == {"text", "empty", "raise"}

RECURSIVE Chunks(_, _)
Chunks(s, size) ==
    IF Len(s) = 0 THEN <<>>
    ELSE <<SubSeq(s, 1, Min(size, Len(s)))>>
            \o Chunks(SubSeq(s, size + 1, Len(s)), size)

\* the pages the API makes of some of an account's tweets, in the order taken
ApiPages(tweets, order) ==
    LET ids == [i \in 1..Len(tweets) |-> IntToStr(tweets[i].id)]
    IN  Chunks(IF order = "newest_first" THEN Reverse(ids) ELSE ids, PageSize)

\* from:handle since:since until:now
InWindow(handle, since) ==
    SelectSeq(posted[handle], LAMBDA t : since <= t.created /\ t.created <= now)

\* what each Source Client call for the handle would end with right now
Api(handle, since_id, last_fetch_timestamp_utc, order, search_outcomes, fetch_outcomes) ==
    [search_since |->
        fetch_tweets_advanced_search(TWITTER_API_KEY,
            ApiPages(InWindow(handle, last_fetch_timestamp_utc), order),
            search_outcomes),
     search_default |->
        fetch_tweets_advanced_search(TWITTER_API_KEY,
            ApiPages(InWindow(handle, now - LastHour), order),
            search_outcomes),
     fetch_since |->
        fetch_tweets(TWITTER_API_KEY, ApiPages(posted[handle], order),
                     since_id, fetch_outcomes),
     fetch_all |->
        fetch_tweets(TWITTER_API_KEY, ApiPages(posted[handle], order),
                     None, fetch_outcomes)]

\* storage.py get_session_context(handle), then context.get(key)
get_session_context(handle) ==
    IF handle \in DOMAIN session_context THEN session_context[handle]
    ELSE [previous_summary |-> "", last_tweet_id |-> None]
ContextLastTweetId(context) == context.last_tweet_id
ContextLastFetchTimestamp(context) ==
    IF "last_fetch_timestamp_utc" \in DOMAIN context
    THEN context.last_fetch_timestamp_utc ELSE NoTime

\* (mutation of update_account_tracking: every column is set to what was
\* passed, None too)
update_account_tracking_every_column(tracking, handle, last_tweet_id, last_fetch_timestamp_utc, last_summary_id) ==
    IF /\ last_tweet_id = None
       /\ last_fetch_timestamp_utc = NoTime
       /\ last_summary_id = 0
    THEN tracking
    ELSE [h \in DOMAIN tracking \cup {handle} |->
            IF h = handle
            THEN [last_tweet_id |-> last_tweet_id,
                  last_fetch_timestamp_utc |-> last_fetch_timestamp_utc,
                  last_summary_id |-> last_summary_id]
            ELSE tracking[h]]

\* database.py update_account_tracking: None (0 for a summary id) leaves a column
update_account_tracking(tracking, handle, last_tweet_id, last_fetch_timestamp_utc, last_summary_id) ==
    IF /\ last_tweet_id = None
       /\ last_fetch_timestamp_utc = NoTime
       /\ last_summary_id = 0
    THEN tracking
    ELSE IF handle \in DOMAIN tracking
    THEN [tracking EXCEPT ![handle] =
            [last_tweet_id |->
                IF last_tweet_id # None THEN last_tweet_id
                ELSE @.last_tweet_id,
             last_fetch_timestamp_utc |->
                IF last_fetch_timestamp_utc # NoTime
                THEN last_fetch_timestamp_utc
                ELSE @.last_fetch_timestamp_utc,
             last_summary_id |->
                IF last_summary_id # 0 THEN last_summary_id
                ELSE @.last_summary_id]]
    ELSE [h \in DOMAIN tracking \cup {handle} |->
            IF h = handle
            THEN [last_tweet_id |-> last_tweet_id,
                  last_fetch_timestamp_utc |-> last_fetch_timestamp_utc,
                  last_summary_id |-> last_summary_id]
            ELSE tracking[h]]

\* for handle in accounts: update_account_tracking(**update_params)
RECURSIVE UpdateAllTracking(_, _, _, _, _)
UpdateAllTracking(tracking, accounts, account_last_tweet_ids, current_timestamp_utc, summary_id) ==
    IF Len(accounts) = 0 THEN tracking
    ELSE UpdateAllTracking(
            update_account_tracking(tracking, accounts[1],
                                    account_last_tweet_ids[accounts[1]],
                                    current_timestamp_utc, summary_id),
            Tail(accounts), account_last_tweet_ids, current_timestamp_utc,
            summary_id)

\* database.py log_scheduler_event
LogRow(fetch_type, status, tweets_fetched, summary_generated, retry_count) ==
    [fetch_type |-> fetch_type, status |-> status,
     tweets_fetched |-> tweets_fetched,
     summary_generated |-> summary_generated, retry_count |-> retry_count]

\* a trigger without a task (generator_calls: how many times the task has
\* awaited generate_summary, over all its attempts)
IdleFire ==
    [pc |-> "idle", attempt |-> 0, idx |-> 0, all_new_tweets |-> <<>>,
     account_last_tweet_ids |-> [h \in Handles |-> None],
     overlapped |-> FALSE, generator_calls |-> 0]

\* the program state a task step works on
ProgramState ==
    [tracking |-> account_tracking, summaries |-> summaries, saved |-> saved,
     logs |-> scheduler_logs, handed |-> handed, aggregated |-> aggregated]

\* refresh_brief_logic raised into the retry loop of _scheduled_refresh
Raised(fetch_type, L, st) ==
    IF L.attempt < max_attempts
    THEN [st |-> st, fire |-> [L EXCEPT !.pc = "backoff"]]
    ELSE [st |-> [st EXCEPT !.logs = Append(@,
                      LogRow(fetch_type, "error", 0, FALSE, L.attempt))],
          fire |-> IdleFire]

\* refresh_brief_logic returned its dict
Succeeded(fetch_type, L, st, tweet_count, summary_id) ==
    [st |-> [st EXCEPT !.logs = Append(@,
                LogRow(fetch_type, "success", tweet_count, summary_id # 0, 0))],
     fire |-> IdleFire]

\* (mutation of Collected: the account's row is written in the pass of the
\* loop that fetched it)
CollectedAndStored(L, st, handle, last_tweet_id, last_fetch_timestamp_utc, r) ==
    [raised |-> r.status = "raised",
     st |-> [st EXCEPT
                !.handed =
                    [handle |-> handle,
                     since_id |-> last_tweet_id,
                     since_time |-> last_fetch_timestamp_utc,
                     stored_id |-> st.tracking[handle].last_tweet_id,
                     stored_time |->
                        st.tracking[handle].last_fetch_timestamp_utc],
                !.aggregated = @ \cup Range(r.tweets),
                !.tracking = update_account_tracking(@, handle,
                                 IF Len(r.tweets) > 0 THEN r.tweets[1]
                                 ELSE last_tweet_id, now, 0)],
     L |-> [L EXCEPT !.all_new_tweets = @ \o r.tweets,
                     !.account_last_tweet_ids[handle] =
                        IF Len(r.tweets) > 0 THEN r.tweets[1]
                        ELSE last_tweet_id]]

\* the rest of one pass of the loop over accounts once fetch_tweets_hybrid
\* has ended in r: new_last_tweet_id = tweets[0], all_new_tweets.extend
Collected(L, st, handle, last_tweet_id, last_fetch_timestamp_utc, r) ==
    [raised |-> r.status = "raised",
     st |-> [st EXCEPT
                !.handed =
                    [handle |-> handle,
                     since_id |-> last_tweet_id,
                     since_time |-> last_fetch_timestamp_utc,
                     stored_id |-> st.tracking[handle].last_tweet_id,
                     stored_time |->
                        st.tracking[handle].last_fetch_timestamp_utc],
                !.aggregated = @ \cup Range(r.tweets)],
     L |-> [L EXCEPT !.all_new_tweets = @ \o r.tweets,
                     !.account_last_tweet_ids[handle] =
                        IF Len(r.tweets) > 0 THEN r.tweets[1]
                        ELSE last_tweet_id]]

\* one pass of the loop over accounts, for the handle: the cursor read from
\* get_session_context and the hybrid fetch with it
FetchAccount(L, st, handle, context, order, search_outcomes, fetch_outcomes) ==
    Collected(L, st, handle, ContextLastTweetId(context),
              ContextLastFetchTimestamp(context),
              fetch_tweets_hybrid(ContextLastTweetId(context),
                  ContextLastFetchTimestamp(context),
                  Api(handle, ContextLastTweetId(context),
                      ContextLastFetchTimestamp(context), order,
                      search_outcomes, fetch_outcomes)))

\* refresh_brief_logic after the fetch of accounts[L.idx] ended in r, up to
\* its next await, its return or its raise
Continued(fetch_type, r) ==
    IF r.raised THEN Raised(fetch_type, r.L, r.st)
    ELSE IF r.L.idx < Len(monitored_accounts)
    THEN [st |-> r.st, fire |-> [r.L EXCEPT !.pc = "sleep", !.idx = @ + 1]]
    ELSE IF Len(r.L.all_new_tweets) = 0
    THEN IF Len(r.st.summaries) > 0
         THEN Succeeded(fetch_type, r.L,
                  [r.st EXCEPT !.tracking =
                      UpdateAllTracking(@, monitored_accounts,
                                        r.L.account_last_tweet_ids, now, 0)],
                  0, 0)
         ELSE Raised(fetch_type, r.L,
                  [r.st EXCEPT !.tracking =
                      UpdateAllTracking(@, monitored_accounts,
                                        r.L.account_last_tweet_ids, now, 0)])
    ELSE [st |-> r.st, fire |-> [r.L EXCEPT !.pc = "generate",
                                            !.generator_calls = @ + 1]]

\* refresh_brief_logic from the fetch of accounts[L.idx] on
AfterFetch(fetch_type, L, st, order, search_outcomes, fetch_outcomes) ==
    Continued(fetch_type,
        FetchAccount(L, st, monitored_accounts[L.idx],
                     get_session_context(monitored_accounts[L.idx]), order,
                     search_outcomes, fetch_outcomes))

\* all_new_tweets as the tweet_ids list handed to save_summary
TweetIdsOf(all_new_tweets) ==
    [i \in 1..Len(all_new_tweets) |-> StrItem(all_new_tweets[i])]

\* the end of refresh_brief_logic when save_summary ended in s: the cursor
\* update with summary_id, the return
Saved(fetch_type, L, st, tweet_ids, s) ==
    Succeeded(fetch_type, L,
        [st EXCEPT !.summaries = s.rows,
                   !.saved = [tweet_ids |-> tweet_ids,
                              generation_timestamp |-> now,
                              summary_id |-> s.summary_id],
                   !.tracking =
                       UpdateAllTracking(@, monitored_accounts,
                           L.account_last_tweet_ids, now, s.summary_id)],
        Len(L.all_new_tweets), s.summary_id)

\* refresh_brief_logic after generate_summary: save_summary of a text that
\* is not empty (an exception of it is swallowed), the cursor update, the
\* return
AfterGenerate(fetch_type, L, st, outcome, db_ok) ==
    IF outcome = "raise" THEN Raised(fetch_type, L, st)
    ELSE IF outcome = "text" /\ db_ok
    THEN Saved(fetch_type, L, st, TweetIdsOf(L.all_new_tweets),
               save_summary(st.summaries, "text",
                            TweetIdsOf(L.all_new_tweets), now))
    ELSE Succeeded(fetch_type, L,
            [st EXCEPT !.tracking =
                UpdateAllTracking(@, monitored_accounts,
                                  L.account_last_tweet_ids, now, 0)],
            Len(L.all_new_tweets), 0)

\* the step of trigger f ends in r, the other triggers' tasks being others
Becomes(f, others, r) ==
    /\ fires' = [others EXCEPT ![f] = r.fire]
    /\ account_tracking' = r.st.tracking
    /\ summaries' = r.st.summaries
    /\ saved' = r.st.saved
    /\ scheduler_logs' = r.st.logs
    /\ handed' = r.st.handed
    /\ aggregated' = r.st.aggregated
    /\ UNCHANGED <<managerVars, callVars, worldVars, session_context, monitored>>

Running == {f \in Triggers : fires[f].pc # "idle"}

\* the tasks under way, marked as overlapped by a task that starts
Overlapped ==
    [g \in Triggers |->
        IF g \in Running THEN [fires[g] EXCEPT !.overlapped = TRUE]
        ELSE fires[g]]

\* _scheduled_refresh(fetch_type) up to its first await or its return
ScheduledRefresh(f) ==
    /\ fires[f].pc = "idle"
    /\ Len(scheduler_logs) + Cardinality(Running) < MaxFires
    /\ \E today \in Dates, order \in Orders, outcomes \in FireOutcomeSeqs :
        IF f = "market_hours" /\ ~should_fetch_today(today)
        THEN /\ scheduler_logs' = Append(scheduler_logs,
                    LogRow(f, "skipped", 0, FALSE, 0))
             /\ UNCHANGED <<managerVars, digestVars, callVars, worldVars, storeVars,
                            fires, handed, aggregated>>
        ELSE IF Len(monitored_accounts) = 0
        THEN /\ scheduler_logs' = Append(scheduler_logs,
                    LogRow(f, "error", 0, FALSE, 0))
             /\ UNCHANGED <<managerVars, digestVars, callVars, worldVars, storeVars,
                            fires, handed, aggregated>>
        ELSE Becomes(f, Overlapped,
                AfterFetch(f, [IdleFire EXCEPT !.attempt = 1, !.idx = 1,
                                               !.overlapped = Running # {}],
                           ProgramState, order, outcomes, outcomes))

\* after await asyncio.sleep(6): the next account, up to the next await
NextAccount(f) ==
    /\ fires[f].pc = "sleep"
    /\ \E order \in Orders, outcomes \in FireOutcomeSeqs :
        Becomes(f, fires, AfterFetch(f, fires[f], ProgramState, order,
                                     outcomes, outcomes))

\* await generate_summary(...) ends; the rest of refresh_brief_logic
Generated(f) ==
    /\ fires[f].pc = "generate"
    /\ \E outcome \in GeneratorOutcomes :
        \E db_ok \in (IF outcome = "text" THEN BOOLEAN ELSE {TRUE}) :
            Becomes(f, fires, AfterGenerate(f, fires[f], ProgramState,
                                            outcome, db_ok))

\* after the backoff sleep: the next attempt, up to its first await
Retry(f) ==
    /\ fires[f].pc = "backoff"
    /\ \E order \in Orders, outcomes \in FireOutcomeSeqs :
        Becomes(f, fires,
            AfterFetch(f, [IdleFire EXCEPT !.attempt = fires[f].attempt + 1,
                                           !.idx = 1,
                                           !.overlapped = fires[f].overlapped,
                                           !.generator_calls =
                                               fires[f].generator_calls],
                       ProgramState, order, outcomes, outcomes))

\* the account posts a tweet
PostTweet(handle) ==
    LET count == Len(Flatten([i \in 1..Len(monitored_accounts) |->
                                 posted[monitored_accounts[i]]]))
    IN  /\ count < MaxTweets
        /\ posted' = [posted EXCEPT ![handle] =
                Append(@, [id |-> FirstTweetId + count, created |-> now])]
        /\ UNCHANGED <<managerVars, digestVars, callVars, TWITTER_API_KEY, now, storeVars,
                       fireVars>>

\* time passes
Tick ==
    /\ now < MaxTime
    /\ now' = now + 1
    /\ UNCHANGED <<managerVars, digestVars, callVars, TWITTER_API_KEY, posted, storeVars,
                   fireVars>>


(***************************************************************************)
(* scheduler.py _scheduled_refresh with the work it awaits                 *)
(* (refresh_brief_logic) known by how each call of it ends                 *)
(***************************************************************************)
\* the fetch_type arguments _scheduled_refresh is called with: by the market
\* hours job, the after market jobs, the weekend job, trigger_now and a test
\* job
FetchTypes == {"market_hours", "after_market", "weekend", "manual", "test"}

\* how one call of the work ends: it returns a dict, returns nothing (None,
\* an empty dict) or raises
WorkResult(tweet_count, summary_id) ==
    [kind |-> "dict", tweet_count |-> tweet_count, summary_id |-> summary_id]
WorkOutcomes ==
    { WorkResult(0, 0), WorkResult(1, 1), [kind |-> "no_result"],
      [kind |-> "raise"] }

\* config.json "retry": max_attempts and backoff_seconds as found there
RetryConfigs ==
    { [max_attempts |-> m, backoff_seconds |-> b] :
          m \in {0, 1, 2, 3}, b \in {60, 1} }

\* (mutation of wait_time: no doubling)
wait_time_constant(backoff_seconds, attempt) == backoff_seconds

\* wait_time = backoff_seconds * (2 ** (attempt - 1))
wait_time(backoff_seconds, attempt) == backoff_seconds * 2^(attempt - 1)

\* the task of a _scheduled_refresh call: where it stands ("awaiting" the
\* work, "sleeping" before the next attempt, "returned"), the attempt, how
\* the calls of the work ended so far and the backoff sleeps begun so far
RefreshTask(status, attempt, outcomes, sleeps) ==
    [status |-> status, attempt |-> attempt, outcomes |-> outcomes,
     sleeps |-> sleeps]

\* what becomes of the task and of scheduler_logs
RefreshStep(task, logs) == [task |-> task, logs |-> logs]

\* (mutation of attempt_ends: a call that returns nothing is retried like
\* one that raises)
attempt_ends_retrying_no_result(c, t, logs, outcome) ==
    LET outcomes == Append(t.outcomes, outcome)
    IN  IF outcome.kind = "dict"
        THEN RefreshStep(RefreshTask("returned", t.attempt, outcomes, t.sleeps),
                 Append(logs, LogRow(c.fetch_type, "success",
                     outcome.tweet_count, outcome.summary_id # 0, 0)))
        ELSE IF t.attempt < c.retry.max_attempts
        THEN RefreshStep(RefreshTask("sleeping", t.attempt, outcomes,
                 Append(t.sleeps, wait_time(c.retry.backoff_seconds, t.attempt))),
                 logs)
        ELSE RefreshStep(RefreshTask("returned", t.attempt, outcomes, t.sleeps),
                 Append(logs, LogRow(c.fetch_type, "error", 0, FALSE,
                                     t.attempt)))

\* (mutation of attempt_ends: an exception of the awaited call is not caught
\* and ends the task)
attempt_ends_raise_escapes(c, t, logs, outcome) ==
    LET outcomes == Append(t.outcomes, outcome)
    IN  IF outcome.kind = "dict"
        THEN RefreshStep(RefreshTask("returned", t.attempt, outcomes, t.sleeps),
                 Append(logs, LogRow(c.fetch_type, "success",
                     outcome.tweet_count, outcome.summary_id # 0, 0)))
        ELSE IF outcome.kind = "no_result"
        THEN RefreshStep(RefreshTask("returned", t.attempt, outcomes, t.sleeps),
                 Append(logs, LogRow(c.fetch_type, "warning", 0, FALSE,
                                     t.attempt - 1)))
        ELSE RefreshStep(RefreshTask("raised", t.attempt, outcomes, t.sleeps),
                 logs)

\* one pass of the retry loop from the end of the awaited call on
attempt_ends(c, t, logs, outcome) ==
    LET outcomes == Append(t.outcomes, outcome)
    IN  IF outcome.kind = "dict"
        THEN RefreshStep(RefreshTask("returned", t.attempt, outcomes, t.sleeps),
                 Append(logs, LogRow(c.fetch_type, "success",
                     outcome.tweet_count, outcome.summary_id # 0, 0)))
        ELSE IF outcome.kind = "no_result"
        THEN RefreshStep(RefreshTask("returned", t.attempt, outcomes, t.sleeps),
                 Append(logs, LogRow(c.fetch_type, "warning", 0, FALSE,
                                     t.attempt - 1)))
        ELSE IF t.attempt < c.retry.max_attempts
        THEN RefreshStep(RefreshTask("sleeping", t.attempt, outcomes,
                 Append(t.sleeps, wait_time(c.retry.backoff_seconds, t.attempt))),
                 logs)
        ELSE RefreshStep(RefreshTask("returned", t.attempt, outcomes, t.sleeps),
                 Append(logs, LogRow(c.fetch_type, "error", 0, FALSE,
                                     t.attempt)))

\* (mutation of scheduled_refresh_begins: the list of accounts is not looked
\* at before the retry loop)
scheduled_refresh_begins_any_accounts(c, logs) ==
    IF c.fetch_type = "market_hours" /\ ~should_fetch_today(c.today)
    THEN RefreshStep(RefreshTask("returned", 0, <<>>, <<>>),
             Append(logs, LogRow(c.fetch_type, "skipped", 0, FALSE, 0)))
    ELSE IF c.retry.max_attempts < 1
    THEN RefreshStep(RefreshTask("returned", 0, <<>>, <<>>), logs)
    ELSE RefreshStep(RefreshTask("awaiting", 1, <<>>, <<>>), logs)

\* (mutation of scheduled_refresh_begins: should_fetch_today is asked for
\* every fetch type)
scheduled_refresh_begins_skip_any_type(c, logs) ==
    IF ~should_fetch_today(c.today)
    THEN RefreshStep(RefreshTask("returned", 0, <<>>, <<>>),
             Append(logs, LogRow(c.fetch_type, "skipped", 0, FALSE, 0)))
    ELSE IF Len(c.accounts) = 0
    THEN RefreshStep(RefreshTask("returned", 0, <<>>, <<>>),
             Append(logs, LogRow(c.fetch_type, "error", 0, FALSE, 0)))
    ELSE IF c.retry.max_attempts < 1
    THEN RefreshStep(RefreshTask("returned", 0, <<>>, <<>>), logs)
    ELSE RefreshStep(RefreshTask("awaiting", 1, <<>>, <<>>), logs)

\* _scheduled_refresh(fetch_type) up to the first call of the work
scheduled_refresh_begins(c, logs) ==
    IF c.fetch_type = "market_hours" /\ ~should_fetch_today(c.today)
    THEN RefreshStep(RefreshTask("returned", 0, <<>>, <<>>),
             Append(logs, LogRow(c.fetch_type, "skipped", 0, FALSE, 0)))
    ELSE IF Len(c.accounts) = 0
    THEN RefreshStep(RefreshTask("returned", 0, <<>>, <<>>),
             Append(logs, LogRow(c.fetch_type, "error", 0, FALSE, 0)))
    ELSE IF c.retry.max_attempts < 1   \* range(1, max_attempts + 1) is empty
    THEN RefreshStep(RefreshTask("returned", 0, <<>>, <<>>), logs)
    ELSE RefreshStep(RefreshTask("awaiting", 1, <<>>, <<>>), logs)

(***************************************************************************)
(* scheduler.py SchedulerManager and the AsyncIOScheduler it drives, the   *)
(* scheduler endpoints of main.py.  The clock counts ticks of              *)
(* SecondsPerTick seconds.  Of the AsyncIOScheduler what the calls made    *)
(* here rely on: jobs are run by a timer when their next run time comes,   *)
(* not at all while paused; resume() and start() process the due jobs; a   *)
(* run time more than misfire_grace_time behind is dropped, several due    *)
(* run times of one job count as the last one (coalesce), and a job has at *)
(* most max_instances runs under way.  add_job is called with none of      *)
(* these, so the defaults hold.                                            *)
(***************************************************************************)
MaxClock == 3          \* ticks the clock of the scheduler may reach
MaxManual == 2         \* manual tasks under way at once
MaxTestCalls == 2      \* requests to /api/scheduler/test in all
MaxBoots == 2          \* process starts in all
SecondsPerTick == 10
MinTestDelay == 10     \* seconds < 10 is refused
MaxTestDelay == 3600   \* seconds > 3600 is refused
max_instances == 1     \* AsyncIOScheduler default, per job

\* the job ids start() registers with the default configuration
CalendarJobs == {"market_hours", "after_market_0", "after_market_1", "weekend"}
\* what asyncio tasks of _scheduled_refresh are counted by
TaskNames == CalendarJobs \cup {"manual", "test"}

\* the ticks at which the cron trigger of a job fires
FireTimes(name) ==
    CASE name = "market_hours" -> {2, 3, 4, 5}
      [] name = "weekend" -> {3, 5}
      [] name = "after_market_0" -> {4}
      [] name = "after_market_1" -> {5}

\* the trigger's first fire time after the given tick; 0 when there is none
NextFireTime(name, after) ==
    LET later == {t \in FireTimes(name) : t > after}
    IN  IF later = {} THEN 0
        ELSE CHOOSE t \in later : \A u \in later : t <= u

\* a job of the scheduler; stamp tells test jobs apart (0 for the others)
Job(name, stamp, next_run_time) ==
    [name |-> name, stamp |-> stamp, next_run_time |-> next_run_time]

\* _schedule_market_hours, _schedule_after_market, _schedule_weekends and
\* the next run times scheduler.start() gives the jobs
ScheduleCalendarJobs(t) == {Job(n, 0, NextFireTime(n, t)) : n \in CalendarJobs}

\* config.py get_scheduler_config / is_scheduler_enabled on the file
get_scheduler_config(file) == [enabled |-> file.enabled, paused |-> file.paused]
is_scheduler_enabled(file) == get_scheduler_config(file).enabled

\* (mutation of save_scheduler_config: nothing is written)
save_scheduler_config_nothing(file, updates) == file

\* config.py save_scheduler_config(updates): the keys given are written to
\* the "scheduler" section of config.json
save_scheduler_config(file, updates) == [file EXCEPT !.paused = updates.paused]

\* the AsyncIOScheduler is there and scheduler.running (paused counts)
SchedulerRunning(m) == m.state \in {"running", "paused"}

\* (mutation of SchedulerManager: the paused key is not read)
SchedulerManagerNeverPaused(file) ==
    [is_paused |-> FALSE, state |-> "none", jobs |-> {}]

\* SchedulerManager.__init__
SchedulerManager(file) ==
    [is_paused |-> get_scheduler_config(file).paused, state |-> "none",
     jobs |-> {}]

\* SchedulerManager.start at tick t
start(m, file, t) ==
    IF ~is_scheduler_enabled(file) THEN m
    ELSE IF SchedulerRunning(m) THEN m
    ELSE [m EXCEPT !.jobs = ScheduleCalendarJobs(t),
                   !.state = IF m.is_paused THEN "paused" ELSE "running"]

\* SchedulerManager.stop
stop(m) ==
    IF SchedulerRunning(m) THEN [m EXCEPT !.state = "stopped", !.jobs = {}]
    ELSE m

\* SchedulerManager.pause: whether it takes effect
pause_applies(m) == SchedulerRunning(m)

\* SchedulerManager.resume: whether scheduler.resume() is reached and does
\* not raise (it raises when the scheduler was shut down)
resume_applies(m) ==
    /\ m.state # "none"
    /\ m.is_paused \/ m.state = "paused"
    /\ m.state # "stopped"

\* the jobs whose next run time has come
DueJobs(m, t) == {j \in m.jobs : j.next_run_time # 0 /\ j.next_run_time <= t}

\* the run time handed to the executor: the last fire time that is due
RunTime(j, t) ==
    IF j.name \in CalendarJobs
    THEN CHOOSE r \in FireTimes(j.name) :
            /\ j.next_run_time <= r /\ r <= t
            /\ \A u \in FireTimes(j.name) : u <= t => u <= r
    ELSE j.next_run_time

\* whether the job's run begins: the run time is not more than
\* misfire_grace_time (1 second) behind, which needs the tick to be that of
\* the run time and the processing to be prompt, and the job has no run
\* under way (each test job is a job of its own)
Executes(j, t, prompt, tasks) ==
    /\ RunTime(j, t) = t /\ prompt
    /\ j.name \in CalendarJobs => tasks[j.name] < max_instances

\* the scheduler processes its due jobs at tick t
ProcessJobs(m, t, prompt, tasks) ==
    LET due == DueJobs(m, t)
        run == {j \in due : Executes(j, t, prompt, tasks)}
    IN  [manager |->
            [m EXCEPT !.jobs = (@ \ due) \cup
                {Job(j.name, 0, NextFireTime(j.name, t)) :
                    j \in {d \in due : d.name \in CalendarJobs}}],
         begun |-> {[name |-> j.name, run_time |-> RunTime(j, t)] : j \in run},
         running |->
            [n \in TaskNames |->
                tasks[n] + Cardinality({j \in run : j.name = n})]]

\* no process yet
SchedulerOff ==
    /\ config_json = [enabled |-> TRUE, paused |-> FALSE]
    /\ manager = SchedulerManager(config_json)
    /\ running = [n \in TaskNames |-> 0]
    /\ begun = {}
    /\ pause_span = [from |-> 0, to |-> 0, boot |-> 0]
    /\ boot = 0

\* pause() has taken effect and no resume() has ended it
InPause == pause_span.from # 0 /\ pause_span.to = 0

\* main.py startup_event in a fresh process: the tasks of the old one are
\* gone, get_scheduler_manager() makes the manager, start()
Startup ==
    /\ boot < MaxBoots
    /\ boot' = boot + 1
    /\ manager' = start(SchedulerManager(config_json), config_json, now)
    /\ running' = [n \in TaskNames |-> 0]
    /\ begun' = {}
    /\ UNCHANGED <<config_json, pause_span>>

\* POST /api/scheduler/pause
PauseScheduler ==
    /\ boot > 0
    /\ begun' = {}
    /\ IF pause_applies(manager)
       THEN /\ manager' = [manager EXCEPT !.state = "paused", !.is_paused = TRUE]
            /\ config_json' = save_scheduler_config(config_json, [paused |-> TRUE])
            /\ pause_span' = IF InPause THEN pause_span
                             ELSE [from |-> now, to |-> 0, boot |-> boot]
       ELSE UNCHANGED <<manager, config_json, pause_span>>
    /\ UNCHANGED <<running, boot>>

\* POST /api/scheduler/resume: scheduler.resume() processes the due jobs
ResumeScheduler ==
    /\ boot > 0
    /\ IF resume_applies(manager)
       THEN \E prompt \in BOOLEAN :
              LET p == ProcessJobs([manager EXCEPT !.state = "running",
                                                   !.is_paused = FALSE],
                                   now, prompt, running)
              IN  /\ manager' = p.manager
                  /\ begun' = p.begun
                  /\ running' = p.running
                  /\ config_json' =
                        save_scheduler_config(config_json, [paused |-> FALSE])
                  /\ pause_span' = IF InPause
                                   THEN [pause_span EXCEPT !.to = now]
                                   ELSE pause_span
       ELSE /\ begun' = {}
            /\ UNCHANGED <<manager, running, config_json, pause_span>>
    /\ UNCHANGED boot

\* (mutation of TriggerNow: refused unless the scheduler is running and not
\* paused)
TriggerNowUnlessPaused ==
    /\ boot > 0
    /\ manager.state = "running"
    /\ running["manual"] < MaxManual
    /\ running' = [running EXCEPT !["manual"] = @ + 1]
    /\ begun' = {[name |-> "manual", run_time |-> now]}
    /\ UNCHANGED <<config_json, manager, pause_span, boot>>

\* POST /api/scheduler/trigger: trigger_now
TriggerNow ==
    /\ boot > 0
    /\ running["manual"] < MaxManual
    /\ running' = [running EXCEPT !["manual"] = @ + 1]
    /\ begun' = {[name |-> "manual", run_time |-> now]}
    /\ UNCHANGED <<config_json, manager, pause_span, boot>>

\* a _scheduled_refresh task ends
TaskEnds(name) ==
    /\ running[name] > 0
    /\ running' = [running EXCEPT ![name] = @ - 1]
    /\ begun' = {}
    /\ UNCHANGED <<config_json, manager, pause_span, boot>>

\* POST /api/scheduler/config with enabled
UpdateSchedulerConfig(enabled) ==
    /\ boot > 0
    /\ config_json' = [config_json EXCEPT !.enabled = enabled]
    /\ manager' = IF enabled THEN start(manager, config_json', now)
                  ELSE stop(manager)
    /\ begun' = {}
    /\ UNCHANGED <<running, pause_span, boot>>

\* how a request to /api/scheduler/test ended
TestResponse(status_code, job) == [status |-> status_code, job |-> job]

\* (mutation of test_scheduler: seconds is not looked at)
test_scheduler_any_delay(m, seconds, t) ==
    IF m.state = "none" \/ ~SchedulerRunning(m)
    THEN [manager |-> m, response |-> TestResponse(400, {})]
    ELSE [manager |-> [m EXCEPT !.jobs = @ \cup
                         {Job("test", t, t + seconds \div SecondsPerTick)}],
          response |-> TestResponse(200, {})]

\* POST /api/scheduler/test?seconds=: test_scheduler and schedule_test_job
test_scheduler(m, seconds, t) ==
    IF seconds < MinTestDelay THEN [manager |-> m, response |-> TestResponse(400, {})]
    ELSE IF seconds > MaxTestDelay
    THEN [manager |-> m, response |-> TestResponse(400, {})]
    ELSE IF m.state = "none" \/ ~SchedulerRunning(m)
    THEN [manager |-> m, response |-> TestResponse(400, {})]
    ELSE LET job == Job("test", t, t + seconds \div SecondsPerTick)
         IN  IF \E j \in m.jobs : j.name = "test" /\ j.stamp = t
             THEN [manager |-> m, response |-> TestResponse(500, {})]
             ELSE [manager |-> [m EXCEPT !.jobs = @ \cup {job}],
                   response |-> TestResponse(200, {job})]

\* time passes; a running scheduler's timer runs the jobs that come due
ClockTick ==
    /\ boot > 0
    /\ now < MaxClock
    /\ now' = now + 1
    /\ IF manager.state = "running"
       THEN LET p == ProcessJobs(manager, now', TRUE, running)
            IN  /\ manager' = p.manager
                /\ begun' = p.begun
                /\ running' = p.running
       ELSE /\ begun' = {}
            /\ UNCHANGED <<manager, running>>
    /\ UNCHANGED <<config_json, pause_span, boot>>
(***************************************************************************)
(* Specifications                                                          *)
(***************************************************************************)
\* no save_summary call made yet (summary ids start at 1)
NoCall == [tweet_ids |-> <<>>, generation_timestamp |-> 0, summary_id |-> 0]

\* no Source Client call is looked at alone
NoClientCall == [fn |-> "none"]
NoReturn == [status |-> "none"]

\* database.py migrate_from_state_json at startup: a tracking row per
\* monitored account, last_tweet_id taken from state.json
migrate_from_state_json(contexts) ==
    [h \in Handles |->
        [last_tweet_id |-> contexts[h].last_tweet_id,
         last_fetch_timestamp_utc |-> NoTime,
         last_summary_id |-> 0]]

NothingHanded ==
    [handle |-> "", since_id |-> None, since_time |-> NoTime,
     stored_id |-> None, stored_time |-> NoTime]

\* the process just started, nothing posted, no trigger fired
Started ==
    /\ now = 1
    /\ posted = [h \in Handles |-> <<>>]
    /\ \E id \in LegacyTweetIds :
          session_context =
              [h \in Handles |-> [previous_summary |-> "", last_tweet_id |-> id]]
    /\ account_tracking = migrate_from_state_json(session_context)
    /\ monitored = monitored_accounts
    /\ fires = [f \in Triggers |-> IdleFire]
    /\ scheduler_logs = <<>>
    /\ handed = NothingHanded
    /\ aggregated = {}
    /\ SchedulerOff

\* the pipeline at rest in the specifications of single functions
Quiet ==
    /\ now = 1
    /\ posted = [h \in Handles |-> <<>>]
    /\ session_context =
          [h \in Handles |-> [previous_summary |-> "", last_tweet_id |-> None]]
    /\ account_tracking = migrate_from_state_json(session_context)
    /\ monitored = monitored_accounts
    /\ fires = [f \in Triggers |-> IdleFire]
    /\ scheduler_logs = <<>>
    /\ handed = NothingHanded
    /\ aggregated = {}
    /\ SchedulerOff

(***************************************************************************)
(* Digest store alone: any caller, any argument list.  save_summary has no *)
(* await in it, so calls of overlapping fires run one after another.       *)
(***************************************************************************)
\* tweet_ids lists of the ids 2, 9 and 10: int and str spellings, both orders,
\* duplicates ("10" sorts before "2" and "9" as str)
TweetIdLists ==
    { <<>>,
      <<IntItem(2)>>, <<StrItem(<<"2">>)>>, <<StrItem(<<"2">>), IntItem(2)>>,
      <<IntItem(10)>>,
      <<IntItem(2), IntItem(10)>>, <<StrItem(<<"1", "0">>), StrItem(<<"2">>)>>,
      <<IntItem(10), IntItem(2), StrItem(<<"1", "0">>)>>,
      <<IntItem(9), IntItem(10)>>, <<IntItem(10), StrItem(<<"9">>), IntItem(9)>> }
SummaryTexts == {"text1", "text2"}
GenerationTimestamps == {1, 2}

InitDigest ==
    /\ summaries = <<>>
    /\ saved = NoCall
    /\ call = NoClientCall
    /\ ret = NoReturn
    /\ TWITTER_API_KEY = TRUE
    /\ Quiet

SaveSummary ==
    \E tweet_ids \in TweetIdLists, summary \in SummaryTexts,
       ts \in GenerationTimestamps :
        LET r == save_summary(summaries, summary, tweet_ids, ts)
        IN  /\ Len(r.rows) <= MaxRows
            /\ summaries' = r.rows
            /\ saved' = [tweet_ids |-> tweet_ids, generation_timestamp |-> ts,
                         summary_id |-> r.summary_id]
            /\ UNCHANGED <<managerVars, callVars, worldVars, storeVars, fireVars>>

NextDigest == SaveSummary

SpecDigest == InitDigest /\ [][NextDigest]_vars

(***************************************************************************)
(* fetch_tweets alone                                                      *)
(***************************************************************************)
Page(ns) == [i \in DOMAIN ns |-> IntToStr(ns[i])]

\* a timeline of more full pages than any call may request: 120, 119, ...
ManyPages == [i \in 1..(MaxPagesSinceId + 2) |-> Page(<<121 - i>>)]

\* timelines of the tweets 105..98 as the API may page them
Timelines ==
    { ManyPages,
      <<Page(<<105, 104, 103>>), Page(<<102, 101, 100>>), Page(<<99, 98>>)>>,
      <<Page(<<105, 104>>), Page(<<103, 102>>), Page(<<101, 100>>), Page(<<99, 98>>)>>,
      <<Page(<<105, 104, 103, 102, 101, 100, 99, 98>>)>>,
      <<Page(<<105, 104, 103>>), Page(<<102, 101, 99>>), Page(<<98>>)>>,
      <<Page(<<103, 105, 104>>), Page(<<100, 102, 101>>)>>,
      <<>> }

SinceIds == {None} \cup {IntToStr(n) : n \in {97, 98, 100, 102, 105, 106}}

FetchOutcomeSeqs ==
    {<<>>, <<"exception">>, <<"error">>, <<"ok", "exception">>,
     <<"ok", "error">>, <<"ok", "ok", "exception">>}

InitFetch ==
    /\ summaries = <<>>
    /\ saved = NoCall
    /\ call \in {[fn |-> "fetch_tweets", pages |-> p, since_id |-> s,
                  outcomes |-> o] :
                    p \in Timelines, s \in SinceIds, o \in FetchOutcomeSeqs}
    /\ ret = NoReturn
    /\ TWITTER_API_KEY \in BOOLEAN
    /\ Quiet

FetchTweets ==
    /\ call.fn = "fetch_tweets"
    /\ ret.status = "none"
    /\ ret' = fetch_tweets(TWITTER_API_KEY, call.pages, call.since_id,
                           call.outcomes)
    /\ UNCHANGED <<managerVars, digestVars, call, worldVars, storeVars, fireVars>>

NextFetch == FetchTweets

SpecFetch == InitFetch /\ [][NextFetch]_vars

(***************************************************************************)
(* fetch_tweets_hybrid alone                                               *)
(***************************************************************************)
\* what the window search may find: nothing, or the tweets 107 and 106
WindowTimelines == {<<>>, <<Page(<<107, 106>>)>>}
HybridSinceIds == {None, IntToStr(100), IntToStr(105)}
HybridTimestamps == {NoTime, 1}

InitHybrid ==
    /\ summaries = <<>>
    /\ saved = NoCall
    /\ call \in {[fn |-> "fetch_tweets_hybrid", since_id |-> s,
                  last_fetch_timestamp_utc |-> t, window |-> w,
                  default_window |-> d, pages |-> p, search_outcomes |-> so,
                  fetch_outcomes |-> fo] :
                    s \in HybridSinceIds, t \in HybridTimestamps,
                    w \in WindowTimelines, d \in WindowTimelines,
                    p \in Timelines, so \in OutcomeSeqs, fo \in OutcomeSeqs}
    /\ ret = NoReturn
    /\ TWITTER_API_KEY \in BOOLEAN
    /\ Quiet

\* what each Source Client call of the hybrid call would end with
CallApi ==
    [search_since |-> fetch_tweets_advanced_search(TWITTER_API_KEY,
                          call.window, call.search_outcomes),
     search_default |-> fetch_tweets_advanced_search(TWITTER_API_KEY,
                          call.default_window, call.search_outcomes),
     fetch_since |-> fetch_tweets(TWITTER_API_KEY, call.pages, call.since_id,
                                  call.fetch_outcomes),
     fetch_all |-> fetch_tweets(TWITTER_API_KEY, call.pages, None,
                                call.fetch_outcomes)]

FetchTweetsHybrid ==
    /\ call.fn = "fetch_tweets_hybrid"
    /\ ret.status = "none"
    /\ ret' = fetch_tweets_hybrid(call.since_id, call.last_fetch_timestamp_utc,
                                  CallApi)
    /\ UNCHANGED <<managerVars, digestVars, call, worldVars, storeVars, fireVars>>

NextHybrid == FetchTweetsHybrid

SpecHybrid == InitHybrid /\ [][NextHybrid]_vars

(***************************************************************************)
(* The running program: triggers firing, tweets being posted, time passing *)
(***************************************************************************)
Init ==
    /\ summaries = <<>>
    /\ saved = NoCall
    /\ call = NoClientCall
    /\ ret = NoReturn
    /\ TWITTER_API_KEY \in BOOLEAN
    /\ Started

Next ==
    \/ \E f \in Triggers : ScheduledRefresh(f)
    \/ \E f \in Triggers : NextAccount(f)
    \/ \E f \in Triggers : Generated(f)
    \/ \E f \in Triggers : Retry(f)
    \/ \E h \in Handles : PostTweet(h)
    \/ Tick

Spec == Init /\ [][Next]_vars

\* the same, with a trigger firing only when no task is under way
NextSequential ==
    \/ \E f \in Triggers : Running = {} /\ ScheduledRefresh(f)
    \/ \E f \in Triggers : NextAccount(f)
    \/ \E f \in Triggers : Generated(f)
    \/ \E f \in Triggers : Retry(f)
    \/ \E h \in Handles : PostTweet(h)
    \/ Tick

SpecSequential == Init /\ [][NextSequential]_vars


(***************************************************************************)
(* _scheduled_refresh alone: one task, any date, any retry configuration,  *)
(* any way each call of the work may end                                   *)
(***************************************************************************)
InitRetry ==
    /\ summaries = <<>>
    /\ saved = NoCall
    /\ call \in {[fn |-> "scheduled_refresh", fetch_type |-> f, today |-> d,
                  accounts |-> a, retry |-> r] :
                    f \in FetchTypes, d \in Dates,
                    a \in {<<>>, monitored_accounts}, r \in RetryConfigs}
    /\ ret = NoReturn
    /\ TWITTER_API_KEY = TRUE
    /\ Quiet

\* the task is created and runs up to its first await or its return
RefreshBegins ==
    /\ call.fn = "scheduled_refresh"
    /\ ret.status = "none"
    /\ ret' = scheduled_refresh_begins(call, scheduler_logs).task
    /\ scheduler_logs' = scheduled_refresh_begins(call, scheduler_logs).logs
    /\ UNCHANGED <<managerVars, digestVars, call, worldVars, storeVars, fires, handed,
                   aggregated>>

\* await refresh_brief_logic() ends
WorkEnds ==
    /\ call.fn = "scheduled_refresh"
    /\ ret.status = "awaiting"
    /\ \E outcome \in WorkOutcomes :
        /\ ret' = attempt_ends(call, ret, scheduler_logs, outcome).task
        /\ scheduler_logs' =
               attempt_ends(call, ret, scheduler_logs, outcome).logs
    /\ UNCHANGED <<managerVars, digestVars, call, worldVars, storeVars, fires, handed,
                   aggregated>>

\* await asyncio.sleep(wait_time) ends: the next pass of the loop
BackoffEnds ==
    /\ call.fn = "scheduled_refresh"
    /\ ret.status = "sleeping"
    /\ ret' = [ret EXCEPT !.status = "awaiting", !.attempt = @ + 1]
    /\ UNCHANGED <<managerVars, digestVars, call, worldVars, storeVars, fireVars>>

NextRetry == RefreshBegins \/ WorkEnds \/ BackoffEnds

SpecRetry == InitRetry /\ [][NextRetry]_vars

(***************************************************************************)
(* _scheduled_refresh fired again and again by the same trigger: a new     *)
(* task is created once the task before it has returned.  Every awaited    *)
(* call ends (it returns or raises) and every sleep ends.                  *)
(***************************************************************************)
MaxRefires == 2

\* the trigger fires again: the new task runs up to its first await or its
\* return
RefreshAgain ==
    /\ call.fn = "scheduled_refresh"
    /\ ret.status = "returned"
    /\ Len(scheduler_logs) < MaxRefires
    /\ ret' = scheduled_refresh_begins(call, scheduler_logs).task
    /\ scheduler_logs' = scheduled_refresh_begins(call, scheduler_logs).logs
    /\ UNCHANGED <<managerVars, digestVars, call, worldVars, storeVars, fires, handed,
                   aggregated>>

NextRefire == RefreshBegins \/ WorkEnds \/ BackoffEnds \/ RefreshAgain

SpecRefire ==
    /\ InitRetry
    /\ [][NextRefire]_vars
    /\ WF_vars(WorkEnds)
    /\ WF_vars(BackoffEnds)

(***************************************************************************)
(* The scheduler alone: process starts, the scheduler endpoints, the       *)
(* clock.  What a fire does is followed in Spec and SpecRetry.             *)
(***************************************************************************)
\* the seconds values requested of /api/scheduler/test
TestDelays == {5, 10, 20, 3600, 3601}

NoTestCall == [fn |-> "none", seconds |-> 0, n |-> 0]

InitScheduler ==
    /\ summaries = <<>>
    /\ saved = NoCall
    /\ call = NoTestCall
    /\ ret = NoReturn
    /\ TWITTER_API_KEY = TRUE
    /\ Quiet

Restart ==
    /\ Startup
    /\ UNCHANGED <<digestVars, callVars, worldVars, storeVars, fireVars>>

Pause ==
    /\ PauseScheduler
    /\ UNCHANGED <<digestVars, callVars, worldVars, storeVars, fireVars>>

Resume ==
    /\ ResumeScheduler
    /\ UNCHANGED <<digestVars, callVars, worldVars, storeVars, fireVars>>

Trigger ==
    /\ TriggerNow
    /\ UNCHANGED <<digestVars, callVars, worldVars, storeVars, fireVars>>

FireEnds ==
    /\ \E name \in TaskNames : TaskEnds(name)
    /\ UNCHANGED <<digestVars, callVars, worldVars, storeVars, fireVars>>

UpdateConfig ==
    /\ \E enabled \in BOOLEAN : UpdateSchedulerConfig(enabled)
    /\ UNCHANGED <<digestVars, callVars, worldVars, storeVars, fireVars>>

TestScheduler ==
    /\ boot > 0
    /\ call.n < MaxTestCalls
    /\ \E seconds \in TestDelays :
        /\ call' = [fn |-> "test_scheduler", seconds |-> seconds,
                    n |-> call.n + 1]
        /\ manager' = test_scheduler(manager, seconds, now).manager
        /\ ret' = test_scheduler(manager, seconds, now).response
    /\ begun' = {}
    /\ UNCHANGED <<config_json, running, pause_span, boot>>
    /\ UNCHANGED <<digestVars, worldVars, storeVars, fireVars>>

TimePasses ==
    /\ ClockTick
    /\ UNCHANGED <<digestVars, callVars, TWITTER_API_KEY, posted, storeVars,
                   fireVars>>

NextScheduler ==
    \/ Restart \/ Pause \/ Resume \/ Trigger \/ FireEnds \/ UpdateConfig
    \/ TestScheduler \/ TimePasses

SpecScheduler == InitScheduler /\ [][NextScheduler]_vars
(***************************************************************************)
(* scheduler.py _schedule_market_hours: the CronTrigger built from the     *)
(* market_hours section of the configuration, and the times of a day it    *)
(* fires at.  A time of day is counted in minutes from midnight, in the    *)
(* trigger's timezone.                                                     *)
(***************************************************************************)
\* where the separator stands in the text
IndexOf(text, sep) == CHOOSE k \in 1..Len(text) : text[k] = sep

\* map(int, text.split(sep)) for a text of two fields
SplitInts(text, sep) ==
    <<StrToInt(SubSeq(text, 1, IndexOf(text, sep) - 1)),
      StrToInt(SubSeq(text, IndexOf(text, sep) + 1, Len(text)))>>

\* f"{start_hour}-{end_hour}" and f"*/{interval_minutes}"
HourExpression(start_hour, end_hour) ==
    IntToStr(start_hour) \o <<"-">> \o IntToStr(end_hour)
MinuteExpression(interval_minutes) == <<"*", "/">> \o IntToStr(interval_minutes)

\* the values a cron field expression of the trigger admits: "a-b" every
\* value from a to b, "*/n" every n-th value of the field from its first
RangeValues(expr) == SplitInts(expr, "-")[1]..SplitInts(expr, "-")[2]
StepValues(expr, first, last) ==
    {v \in first..last :
        (v - first) % StrToInt(SubSeq(expr, 3, Len(expr))) = 0}

\* CronTrigger(hour=..., minute=...): the hours and the minutes it fires in
CronTrigger(hour, minute) ==
    [hour |-> RangeValues(hour), minute |-> StepValues(minute, 0, 59)]

\* the trigger _schedule_market_hours builds: start_minute and end_minute are
\* parsed and not used
market_hours_trigger(market_config) ==
    LET start_hm == SplitInts(market_config.start, ":")
        end_hm == SplitInts(market_config.end, ":")
        trigger == CronTrigger(HourExpression(start_hm[1], end_hm[1]),
                       MinuteExpression(market_config.fetch_interval_minutes))
    IN  [at |-> {60 * h + m : h \in trigger.hour, m \in trigger.minute}]

\* market_hours sections of config.json: the defaults and others
MarketHoursConfigs ==
    [start : {<<"0", "9", ":", "3", "0">>, <<"0", "9", ":", "0", "0">>,
              <<"1", "0", ":", "1", "5">>},
     end : {<<"1", "6", ":", "0", "0">>, <<"1", "5", ":", "3", "0">>},
     fetch_interval_minutes : {15, 30, 45}]

\* the job of the trigger on a day: the clock, and the last two times it ran
CronJob(trigger, clock, previous_run, last_run) ==
    [status |-> "scheduled", trigger |-> trigger, clock |-> clock,
     previous_run |-> previous_run, last_run |-> last_run]

\* no run yet today
NoRun == 0 - 1

InitCron ==
    /\ summaries = <<>>
    /\ saved = NoCall
    /\ call \in {[fn |-> "_schedule_market_hours", market_config |-> c] :
                    c \in MarketHoursConfigs}
    /\ ret = NoReturn
    /\ TWITTER_API_KEY = TRUE
    /\ Quiet

\* start() at midnight: the job is added
ScheduleMarketHours ==
    /\ call.fn = "_schedule_market_hours"
    /\ ret.status = "none"
    /\ ret' = CronJob(market_hours_trigger(call.market_config), 0, NoRun, NoRun)
    /\ UNCHANGED <<managerVars, digestVars, call, worldVars, storeVars, fireVars>>

\* the job is due at this minute and has not run in it
CronDue ==
    /\ ret.status = "scheduled"
    /\ ret.clock \in ret.trigger.at
    /\ ret.last_run # ret.clock

\* the scheduler runs the job at its fire time
CronFire ==
    /\ CronDue
    /\ ret' = [ret EXCEPT !.previous_run = ret.last_run, !.last_run = ret.clock]
    /\ UNCHANGED <<managerVars, digestVars, call, worldVars, storeVars, fireVars>>

\* a minute of the day passes
CronMinute ==
    /\ ret.status = "scheduled"
    /\ ~CronDue
    /\ ret.clock < 24 * 60 - 1
    /\ ret' = [ret EXCEPT !.clock = @ + 1]
    /\ UNCHANGED <<managerVars, digestVars, call, worldVars, storeVars, fireVars>>

NextCron == ScheduleMarketHours \/ CronFire \/ CronMinute

SpecCron == InitCron /\ [][NextCron]_vars


(***************************************************************************)
(* The account endpoints of main.py (manage_accounts, delete_account) with *)
(* storage.py add_account and remove_account                               *)
(***************************************************************************)
\* storage.py add_account: appended when not in the list
add_account(accounts, handle) ==
    IF handle \in Range(accounts)
    THEN [accounts |-> accounts, added |-> FALSE]
    ELSE [accounts |-> Append(accounts, handle), added |-> TRUE]

\* storage.py remove_account: taken out of the list; session_context and the
\* account_tracking row stay
remove_account(accounts, handle) ==
    IF handle \in Range(accounts)
    THEN [accounts |-> SelectSeq(accounts, LAMBDA a : a # handle),
          removed |-> TRUE]
    ELSE [accounts |-> accounts, removed |-> FALSE]

\* oldest_tweet.get("createdAt") of a tweet the upstream returned
CreatedAt(handle, id) ==
    LET t == CHOOSE t \in Range(posted[handle]) : IntToStr(t.id) = id
    IN  t.created

\* what becomes of the tables in manage_accounts
Registered(tracking, rows) == [tracking |-> tracking, rows |-> rows]

\* manage_accounts once add_account has added the handle and
\* fetch_tweets(handle, since_id=None) has ended in r: the initial tracking
\* state (the id of initial_tweets[0], the time of initial_tweets[-1]), then
\* generate_summary over the initial tweets, save_summary and the tracking
\* update with the summary id
initial_tracking(tracking, rows, handle, r, outcome) ==
    IF r.status = "raised" \/ Len(r.tweets) = 0
    THEN Registered(update_account_tracking(tracking, handle, None, now, 0),
                    rows)
    ELSE LET latest_tweet_id == r.tweets[1]
             last_fetch_timestamp_utc ==
                 CreatedAt(handle, r.tweets[Len(r.tweets)])
             first == update_account_tracking(tracking, handle,
                          latest_tweet_id, last_fetch_timestamp_utc, 0)
             s == save_summary(rows, "text", TweetIdsOf(r.tweets),
                               last_fetch_timestamp_utc)
         IN  IF outcome = "text"
             THEN Registered(update_account_tracking(first, handle,
                                 latest_tweet_id, last_fetch_timestamp_utc,
                                 s.summary_id),
                             s.rows)
             ELSE Registered(first, rows)

\* POST /manage-accounts
ManageAccounts(handle) ==
    LET a == add_account(monitored, handle)
    IN  IF ~a.added
        THEN UNCHANGED <<monitored, account_tracking, summaries>>
        ELSE \E order \in Orders, outcomes \in FireOutcomeSeqs,
                outcome \in GeneratorOutcomes :
               LET r == fetch_tweets(TWITTER_API_KEY,
                            ApiPages(posted[handle], order), None, outcomes)
                   e == initial_tracking(account_tracking, summaries, handle,
                                         r, outcome)
               IN  /\ monitored' = a.accounts
                   /\ account_tracking' = e.tracking
                   /\ summaries' = e.rows

\* DELETE /manage-accounts/{handle}
DeleteAccount(handle) ==
    /\ monitored' = remove_account(monitored, handle).accounts
    /\ UNCHANGED <<account_tracking, summaries>>
(***************************************************************************)
(* The end of an attempt alone: a task waiting in await generate_summary,  *)
(* with what generate_summary and save_summary will do kept in call.       *)
(***************************************************************************)
\* what the fetch of bob returned in the attempt: tweet 9, or 9 and 10
FetchedLists == {Page(<<9>>), Page(<<10, 9>>), Page(<<9, 10>>)}

\* the task of trigger f in its attempt-th attempt, suspended in
\* generate_summary with bob's tweets as aggregate
Generating(attempt, tweets) ==
    [IdleFire EXCEPT !.pc = "generate", !.attempt = attempt, !.idx = 2,
                     !.all_new_tweets = tweets,
                     !.account_last_tweet_ids["bob"] = tweets[1],
                     !.generator_calls = attempt]

InitStore ==
    /\ summaries = <<>>
    /\ saved = NoCall
    /\ call \in [fn : {"generate_summary"}, outcome : GeneratorOutcomes,
                 db_ok : BOOLEAN]
    /\ ret = NoReturn
    /\ TWITTER_API_KEY = TRUE
    /\ now = 1
    /\ \E tweets \in FetchedLists, attempt \in 1..max_attempts, f \in Triggers :
          /\ posted = [h \in Handles |->
                IF h = "bob"
                THEN [i \in 1..Len(tweets) |->
                         [id |-> FirstTweetId + i - 1, created |-> 1]]
                ELSE <<>>]
          /\ fires = [g \in Triggers |->
                IF g = f THEN Generating(attempt, tweets) ELSE IdleFire]
          /\ aggregated = Range(tweets)
    /\ session_context =
          [h \in Handles |-> [previous_summary |-> "", last_tweet_id |-> None]]
    /\ account_tracking = migrate_from_state_json(session_context)
    /\ monitored = monitored_accounts
    /\ scheduler_logs = <<>>
    /\ handed = [NothingHanded EXCEPT !.handle = "bob"]
    /\ SchedulerOff

\* await generate_summary ends as call says; the rest of refresh_brief_logic
GenerateEnds(f) ==
    /\ fires[f].pc = "generate"
    /\ call.fn = "generate_summary"
    /\ Becomes(f, fires, AfterGenerate(f, fires[f], ProgramState, call.outcome,
                                       call.db_ok))

NextStore == \E f \in Triggers : GenerateEnds(f)

SpecStore == InitStore /\ [][NextStore]_vars


(***************************************************************************)
(* The operations other than fires: the account endpoints and the          *)
(* scheduler endpoints, over tracking rows as earlier fires left them      *)
(***************************************************************************)
\* what the upstream holds of each account
AccountTimelines ==
    [h \in Handles |->
        IF h = "alice"
        THEN <<[id |-> 9, created |-> 1], [id |-> 10, created |-> 2]>>
        ELSE <<[id |-> 11, created |-> 2]>>]

\* the account_tracking rows as a run at tick 3 (alice, tweet 10 seen) and a
\* run at tick 2 (bob, no tweet yet) left them
CursorRows ==
    [h \in Handles |->
        IF h = "alice"
        THEN [last_tweet_id |-> IntToStr(10), last_fetch_timestamp_utc |-> 3,
              last_summary_id |-> 0]
        ELSE [last_tweet_id |-> None, last_fetch_timestamp_utc |-> 2,
              last_summary_id |-> 0]]

InitAccounts ==
    /\ summaries = <<>>
    /\ saved = NoCall
    /\ call = NoTestCall
    /\ ret = NoReturn
    /\ TWITTER_API_KEY = TRUE
    /\ now = MaxTime
    /\ posted = AccountTimelines
    /\ session_context =
          [h \in Handles |-> [previous_summary |-> "", last_tweet_id |-> None]]
    /\ account_tracking = CursorRows
    /\ monitored = monitored_accounts
    /\ fires = [f \in Triggers |-> IdleFire]
    /\ scheduler_logs = <<>>
    /\ handed = NothingHanded
    /\ aggregated = {}
    /\ SchedulerOff

AddAccount ==
    /\ \E handle \in Handles : ManageAccounts(handle)
    /\ UNCHANGED <<managerVars, saved, callVars, worldVars, session_context,
                   fireVars>>

RemoveAccount ==
    /\ \E handle \in Handles : DeleteAccount(handle)
    /\ UNCHANGED <<managerVars, saved, callVars, worldVars, session_context,
                   fireVars>>

NextAccounts ==
    \/ AddAccount \/ RemoveAccount \/ Restart \/ Pause \/ Resume
    \/ TestScheduler

SpecAccounts == InitAccounts /\ [][NextAccounts]_vars

(***************************************************************************)
(* update_account_tracking alone: any table, any arguments                 *)
(***************************************************************************)
\* a row never written, and a row as a run with a digest left it
TrackedRows ==
    { [last_tweet_id |-> None, last_fetch_timestamp_utc |-> NoTime,
       last_summary_id |-> 0],
      [last_tweet_id |-> IntToStr(9), last_fetch_timestamp_utc |-> 1,
       last_summary_id |-> 1] }

\* the account_tracking tables with a row for some of the handles
TrackingTables ==
    UNION { [present -> TrackedRows] : present \in SUBSET Handles }

InitTracking ==
    /\ summaries = <<>>
    /\ saved = NoCall
    /\ call \in {[fn |-> "update_account_tracking", handle |-> h,
                  last_tweet_id |-> i, last_fetch_timestamp_utc |-> t,
                  last_summary_id |-> s] :
                    h \in Handles, i \in {None, IntToStr(10)},
                    t \in {NoTime, 2}, s \in {0, 2}}
    /\ ret = NoReturn
    /\ TWITTER_API_KEY = TRUE
    /\ now = 1
    /\ posted = [h \in Handles |-> <<>>]
    /\ session_context =
          [h \in Handles |-> [previous_summary |-> "", last_tweet_id |-> None]]
    /\ account_tracking \in TrackingTables
    /\ monitored = monitored_accounts
    /\ fires = [f \in Triggers |-> IdleFire]
    /\ scheduler_logs = <<>>
    /\ handed = NothingHanded
    /\ aggregated = {}
    /\ SchedulerOff

\* the call is made; ret keeps the table as it was before
UpdateAccountTracking ==
    /\ call.fn = "update_account_tracking"
    /\ ret.status = "none"
    /\ account_tracking' =
          update_account_tracking(account_tracking, call.handle,
              call.last_tweet_id, call.last_fetch_timestamp_utc,
              call.last_summary_id)
    /\ ret' = [status |-> "returned", before |-> account_tracking]
    /\ UNCHANGED <<managerVars, digestVars, call, worldVars, session_context,
                   monitored, fireVars>>

NextTracking == UpdateAccountTracking

SpecTracking == InitTracking /\ [][NextTracking]_vars
(***************************************************************************)
(* Digest store properties                                                 *)
(***************************************************************************)
\* the item-id set of a stored row and of an argument list, as sets of str
RowItemSet(row) == Range(JsonLoads(row.tweet_ids))
CallItemSet(tweet_ids) == {PyStr(tid) : tid \in Range(tweet_ids)}

OneRowPerItemSet ==
    \A i, j \in 1..Len(summaries) :
        RowItemSet(summaries[i]) = RowItemSet(summaries[j]) => i = j

CallOnStoredSetInsertsNothing ==
    saved'.summary_id # 0 =>
        LET hits == {i \in 1..Len(summaries) :
                        RowItemSet(summaries[i]) = CallItemSet(saved'.tweet_ids)}
        IN  hits # {} =>
                /\ Len(summaries') = Len(summaries)
                /\ \E i \in hits : saved'.summary_id = summaries[i].id

\* C1: after any sequence of save_summary calls the table holds at most one row
\* per item-id set (ids stringified, de-duplicated, sorted), and a call whose set
\* is already stored inserts no row and returns the stored row's id, however the
\* list was ordered or duplicated.
C1_OneRowPerItemSet ==
    [](OneRowPerItemSet) /\ [][CallOnStoredSetInsertsNothing]_vars

\* a three-element list with a duplicate, out of order, mixing int and str, was
\* answered with the id of the first of two stored rows
C1_Witness ==
    /\ saved.summary_id # 0
    /\ Len(saved.tweet_ids) = 3
    /\ Len(summaries) = 2
    /\ saved.summary_id = summaries[1].id

\* C2: a save_summary call changes of the rows already stored nothing but the
\* summary text of the row whose item-id set it names: every stored row keeps
\* its id, its item-id set and the timestamp its first call gave it.
C2_GeneratedAtKept ==
    [][\A i \in 1..Len(summaries) :
          /\ i <= Len(summaries')
          /\ summaries'[i].id = summaries[i].id
          /\ summaries'[i].timestamp = summaries[i].timestamp
          /\ summaries'[i].tweet_ids = summaries[i].tweet_ids
          /\ (saved'.summary_id # 0 /\ summaries'[i].summary # summaries[i].summary)
                => /\ saved'.summary_id = summaries[i].id
                   /\ RowItemSet(summaries[i]) = CallItemSet(saved'.tweet_ids)]_vars

\* the last call named a stored set with another generation_timestamp than the
\* row's, and the row still carries its first timestamp
C2_Witness ==
    /\ saved.summary_id # 0
    /\ \E i \in 1..Len(summaries) :
          /\ summaries[i].id = saved.summary_id
          /\ summaries[i].timestamp # saved.generation_timestamp

(***************************************************************************)
(* Cursor properties                                                       *)
(***************************************************************************)
\* the stored cursor of the account does not move backwards in this step
CursorForward(h) ==
    /\ account_tracking'[h].last_fetch_timestamp_utc
          >= account_tracking[h].last_fetch_timestamp_utc
    /\ StrToInt(account_tracking'[h].last_tweet_id)
          >= StrToInt(account_tracking[h].last_tweet_id)

\* the step ends a run of refresh_brief_logic that returned its result
RunSucceeded ==
    /\ Len(scheduler_logs') = Len(scheduler_logs) + 1
    /\ scheduler_logs'[Len(scheduler_logs')].status = "success"

\* C3: when fires run one after another, no successful run lowers an
\* account's stored last_fetch_timestamp_utc or its stored last_tweet_id
\* (compared as numbers), whatever the upstream returns and in whatever order.
C3_SequentialCursorMonotone ==
    [][RunSucceeded => \A h \in Handles : CursorForward(h)]_vars

\* C4: when fires of two triggers overlap, no step of either lowers an
\* account's stored last_tweet_id or last_fetch_timestamp_utc.
C4_OverlapCursorMonotone ==
    [][(\E f \in Triggers : fires[f].overlapped \/ fires'[f].overlapped)
          => \A h \in Handles : CursorForward(h)]_vars

MovesPast(h, t) ==
    \/ /\ account_tracking[h].last_fetch_timestamp_utc # NoTime
       /\ account_tracking[h].last_fetch_timestamp_utc < t.created
       /\ t.created < account_tracking'[h].last_fetch_timestamp_utc
    \/ /\ account_tracking[h].last_tweet_id # None
       /\ StrToInt(account_tracking[h].last_tweet_id) < t.id
       /\ t.id <= StrToInt(account_tracking'[h].last_tweet_id)

\* C6: whenever a step moves an account's stored cursor (time or id) past a
\* tweet of the account, that tweet was returned to this fire or an earlier
\* one and was part of its aggregate.
C6_NoItemLost ==
    [][\A h \in Handles : \A i \in 1..Len(posted[h]) :
          MovesPast(h, posted[h][i])
              => IntToStr(posted[h][i].id) \in aggregated']_vars

\* C7: the item-id sets of distinct stored digests are pairwise disjoint.
C7_DigestsDisjoint ==
    \A i, j \in 1..Len(summaries) :
        i # j => RowItemSet(summaries[i]) \cap RowItemSet(summaries[j]) = {}

(***************************************************************************)
(* Source Client properties                                                *)
(***************************************************************************)
\* a hybrid call with both cursor fields whose window search came back with
\* no tweets has returned
EmptyWindowReturned ==
    /\ call.fn = "fetch_tweets_hybrid"
    /\ ret.status # "none"
    /\ call.last_fetch_timestamp_utc # NoTime
    /\ call.since_id # None
    /\ CallApi.search_since.status # "raised"
    /\ Len(CallApi.search_since.tweets) = 0

NewerOf(pages, since_id_str) ==
    SelectSeq(Flatten(pages),
              LAMBDA id : StrToInt(id) > StrToInt(since_id_str))

\* C9: a fetch_tweets call with a since_id returns exactly the tweets of the
\* pages it fetched whose id is numerically above since_id, each once, in page
\* order.
C9_ReturnsExactlyNewer ==
    (call.fn = "fetch_tweets" /\ call.since_id # None
        /\ ret.status \in {"returned", "failed"})
        => ret.tweets = NewerOf(ret.fetched, call.since_id)

\* the pages [105,104,103], [102,101,100], [99,98]
ExamplePages ==
    <<Page(<<105, 104, 103>>), Page(<<102, 101, 100>>), Page(<<99, 98>>)>>

\* C10: a fetch_tweets call with a since_id requests no page after a page
\* that holds the tweet equal to since_id; over the example pages with
\* since_id 100 it returns [105,104,103,102,101] after exactly two requests.
C10_NoPageAfterSinceId ==
    (call.fn = "fetch_tweets" /\ call.since_id # None /\ ret.status # "none")
        => /\ \A i \in 1..(Len(ret.fetched) - 1) :
                \A k \in 1..Len(ret.fetched[i]) :
                    StrToInt(ret.fetched[i][k]) # StrToInt(call.since_id)
           /\ (/\ call.pages = ExamplePages
               /\ call.since_id = IntToStr(100)
               /\ call.outcomes = <<>>
               /\ ret.status = "returned")
                 => /\ ret.tweets = Page(<<105, 104, 103, 102, 101>>)
                    /\ ret.page_count = 2

\* C11: a fetch_tweets call makes at most 5 page requests when since_id is
\* None and at most 10 when it is given, whatever the API answers.
C11_PageRequestsCapped ==
    (call.fn = "fetch_tweets" /\ ret.status # "none")
        => ret.page_count <= (IF call.since_id = None THEN 5 ELSE 10)

\* a first run stopped by the limit while the API offered a sixth page
C11_Witness ==
    /\ call.fn = "fetch_tweets"
    /\ call.since_id = None
    /\ call.pages = ManyPages
    /\ ret.status = "returned"
    /\ ret.page_count = 5
    /\ Len(ret.tweets) = 5

\* the task has returned and every call of the work raised
AlwaysRaised ==
    /\ call.fn = "scheduled_refresh"
    /\ ret.status = "returned"
    /\ Len(ret.outcomes) > 0
    /\ \A i \in 1..Len(ret.outcomes) : ret.outcomes[i].kind = "raise"

\* C12: when the work raises on every attempt it is called exactly
\* max_attempts times, the sleep after attempt i (not the last) is
\* backoff_seconds * 2^(i-1), that is 60 then 120 for 3 attempts and 60
\* seconds, and one "error" row with retry_count = max_attempts is logged.
C12_BackoffDoubles ==
    AlwaysRaised =>
        /\ Len(ret.outcomes) = call.retry.max_attempts
        /\ Len(ret.sleeps) = call.retry.max_attempts - 1
        /\ \A i \in 1..Len(ret.sleeps) :
              ret.sleeps[i] = call.retry.backoff_seconds * 2^(i - 1)
        /\ (call.retry.max_attempts = 3 /\ call.retry.backoff_seconds = 60)
              => ret.sleeps = <<60, 120>>
        /\ scheduler_logs =
              <<LogRow(call.fetch_type, "error", 0, FALSE,
                       call.retry.max_attempts)>>

C12_Witness ==
    /\ AlwaysRaised
    /\ call.retry.max_attempts = 3
    /\ call.retry.backoff_seconds = 60
    /\ ret.sleeps = <<60, 120>>
    /\ scheduler_logs[1].retry_count = 3

\* some call of the work returned nothing
NoResultReturned ==
    /\ call.fn = "scheduled_refresh"
    /\ ret.status # "none"
    /\ \E i \in 1..Len(ret.outcomes) : ret.outcomes[i].kind = "no_result"

\* C13: when a call of the work returns nothing, on whichever attempt, the
\* task returns with one "warning" row: that call is the last one and no
\* backoff sleep follows it.
C13_NoResultIsWarning ==
    NoResultReturned =>
        /\ ret.status = "returned"
        /\ ret.outcomes[Len(ret.outcomes)].kind = "no_result"
        /\ \A i \in 1..(Len(ret.outcomes) - 1) : ret.outcomes[i].kind = "raise"
        /\ Len(ret.sleeps) = Len(ret.outcomes) - 1
        /\ Len(scheduler_logs) = 1
        /\ scheduler_logs[1].status = "warning"

\* nothing returned by the second call, after a first call that raised
C13_Witness ==
    /\ NoResultReturned
    /\ Len(ret.outcomes) = 2
    /\ ret.outcomes[1].kind = "raise"
    /\ call.retry.max_attempts = 3
    /\ scheduler_logs[1].status = "warning"
    /\ scheduler_logs[1].retry_count = 1

\* C14: a task that has returned has logged exactly one row, and one that
\* has not returned yet has logged none, whatever retry.max_attempts is.
C14_OneRowPerFire ==
    (call.fn = "scheduled_refresh" /\ ret.status # "none")
        => Len(scheduler_logs) = (IF ret.status = "returned" THEN 1 ELSE 0)

\* a market hours task on a Saturday, a Sunday or a listed holiday
SkipDay ==
    /\ call.fn = "scheduled_refresh"
    /\ call.fetch_type = "market_hours"
    /\ \/ call.today.weekday \in {5, 6}
       \/ call.today.ymd \in US_MARKET_HOLIDAYS
    /\ ret.status # "none"

\* C15: a market hours task on a Saturday, a Sunday or a listed holiday logs
\* one "skipped" row and returns without calling the work (so without a
\* Source Client call), without a backoff sleep, and with every cursor
\* and digest as it was.
C15_SkipDayDoesNothing ==
    SkipDay =>
        /\ ret = RefreshTask("returned", 0, <<>>, <<>>)
        /\ scheduler_logs = <<LogRow("market_hours", "skipped", 0, FALSE, 0)>>
        /\ summaries = <<>>
        /\ account_tracking = migrate_from_state_json(session_context)
        /\ handed = NothingHanded

\* skipped on a holiday that is a weekday, with accounts to fetch
C15_Witness ==
    /\ SkipDay
    /\ call.today = Date(<<2026, 7, 3>>, 4)
    /\ Len(call.accounts) > 0
    /\ call.retry.max_attempts = 3
    /\ scheduler_logs[1].status = "skipped"

CalendarBegun == {b \in begun : b.name \in CalendarJobs}
RegisteredJobs(m) == {j.name : j \in m.jobs} \cap CalendarJobs

\* the process was started again after pause() took effect, no resume()
\* since, and the scheduler is enabled
RestartedInPause ==
    /\ InPause
    /\ pause_span.boot < boot
    /\ config_json.enabled

ElapsedInPause(r) ==
    /\ pause_span.from # 0
    /\ pause_span.from < r
    /\ pause_span.to = 0 \/ r <= pause_span.to

\* C17: while the scheduler is paused no step begins a fire of a calendar
\* job, pausing, resuming and the steps in between leave the calendar jobs
\* registered as they were, and no fire of a calendar job is begun for a
\* fire time that elapsed in the pause.
C17_NoReplayAfterResume ==
    /\ [](manager.state = "paused" => CalendarBegun = {})
    /\ [][(manager.state = "paused" /\ manager'.state \in {"paused", "running"})
             => RegisteredJobs(manager') = RegisteredJobs(manager)]_vars
    /\ [](\A b \in CalendarBegun : ~ElapsedInPause(b.run_time))

\* C18: no trigger, calendar job or "manual", has two _scheduled_refresh
\* tasks under way at once.
C18_OneFirePerTrigger ==
    \A n \in CalendarJobs \cup {"manual"} : running[n] <= 1

\* a request to /api/scheduler/test that must be refused
RefusedTestCall ==
    /\ call'.fn = "test_scheduler"
    /\ call'.n # call.n
    /\ \/ call'.seconds < 10
       \/ call'.seconds > 3600
       \/ manager.state \in {"none", "stopped"}

EmptyAggregateStep(f) ==
    /\ TWITTER_API_KEY
    /\ fires[f].pc = "sleep"
    /\ fires'[f].pc \in {"idle", "backoff"}

\* C20: a step that ends an attempt with an empty aggregate leaves the
\* summaries table as it was, sets every account's last fetch timestamp to
\* the time of the run and leaves every account's last tweet id as it was.
C20_EmptyAggregateOnlyAdvancesTime ==
    [][\A f \in Triggers :
          EmptyAggregateStep(f) =>
              /\ summaries' = summaries
              /\ \A h \in Handles :
                    /\ account_tracking'[h].last_fetch_timestamp_utc = now
                    /\ account_tracking'[h].last_tweet_id =
                          account_tracking[h].last_tweet_id]_vars
(***************************************************************************)
(* Failure handling of a fire                                              *)
(***************************************************************************)
\* the upstream holds no tweet of any account: whatever a fetch returns, no
\* account has a new tweet
NothingPosted == \A h \in Handles : posted[h] = <<>>

\* the step writes the scheduler_logs row of the task of trigger f
LogsRow(f) ==
    /\ Len(scheduler_logs') = Len(scheduler_logs) + 1
    /\ scheduler_logs'[Len(scheduler_logs')].fetch_type = f

\* C21: an attempt in which no account has a new tweet ends the fire: the
\* task does not go into a backoff sleep for another attempt and the row it
\* writes to scheduler_logs does not have the status error, also when the
\* summaries table is empty.
C21_EmptyFireIsNotFailure ==
    [][\A f \in Triggers :
          (EmptyAggregateStep(f) /\ NothingPosted) =>
              /\ fires'[f].pc = "idle"
              /\ LogsRow(f)
              /\ scheduler_logs'[Len(scheduler_logs')].status # "error"]_vars

\* the step ends await generate_summary of the task of trigger f with the
\* exception it raised: the attempt failed
GeneratorRaised(f) ==
    /\ fires[f].pc = "generate"
    /\ \/ fires'[f].pc = "backoff"
       \/ /\ LogsRow(f)
          /\ scheduler_logs'[Len(scheduler_logs')].status = "error"

\* the tweets of the account that are part of the aggregate of the task
FetchedOf(f, h) ==
    {i \in 1..Len(posted[h]) :
        IntToStr(posted[h][i].id) \in Range(fires[f].all_new_tweets)}

\* C22: when generate_summary raises in an attempt that fetched tweets, the
\* step still stores, for every account, a last tweet id that is not below
\* any tweet of the account in the aggregate and the time of the run as last
\* fetch timestamp.
C22_GeneratorFailureAdvancesCursor ==
    [][\A f \in Triggers :
          GeneratorRaised(f) =>
              \A h \in Handles :
                  FetchedOf(f, h) # {} =>
                      /\ account_tracking'[h].last_fetch_timestamp_utc = now
                      /\ \A i \in FetchedOf(f, h) :
                            StrToInt(account_tracking'[h].last_tweet_id)
                                >= posted[h][i].id]_vars

\* C23: the task of a fire awaits generate_summary at most once over all its
\* attempts, and only with an aggregate that holds at least one tweet.
C23_GeneratorOncePerFire ==
    \A f \in Triggers :
        /\ fires[f].generator_calls <= 1
        /\ fires[f].pc = "generate" => Len(fires[f].all_new_tweets) > 0

\* the step ends the task of trigger f with a run that returned its result
Completes(f) ==
    /\ fires[f].pc # "idle"
    /\ fires'[f].pc = "idle"
    /\ LogsRow(f)
    /\ scheduler_logs'[Len(scheduler_logs')].status = "success"

\* C24: a run that returns its result stores, for an account whose fetch
\* returned tweets, the numerically largest of their ids as last tweet id,
\* whatever the order of the list, and leaves the stored last tweet id of an
\* account without tweets in the run as it was.
C24_StoresLargestId ==
    [][\A f \in Triggers :
          Completes(f) =>
              \A h \in Handles :
                  IF FetchedOf(f, h) # {}
                  THEN /\ \A i \in FetchedOf(f, h) :
                            StrToInt(account_tracking'[h].last_tweet_id)
                                >= posted[h][i].id
                       /\ \E i \in FetchedOf(f, h) :
                            StrToInt(account_tracking'[h].last_tweet_id)
                                = posted[h][i].id
                  ELSE account_tracking'[h].last_tweet_id
                          = account_tracking[h].last_tweet_id]_vars

\* generate_summary returned a text to the waiting task, the save_summary
\* call made with it raised, and the attempt has ended
StoreFailed ==
    /\ call.fn = "generate_summary"
    /\ call.outcome = "text"
    /\ ~call.db_ok
    /\ \A f \in Triggers : fires[f].pc # "generate"

\* C25: when save_summary raises, the attempt fails like one whose fetch
\* failed: the task goes into the backoff sleep for another attempt, or after
\* the last attempt writes its row with status error; the fire does not end
\* as a success.
C25_StoreFailureIsRetried ==
    StoreFailed =>
        \/ \E f \in Triggers : fires[f].pc = "backoff"
        \/ /\ Len(scheduler_logs) > 0
           /\ scheduler_logs[Len(scheduler_logs)].status = "error"

(***************************************************************************)
(* Hybrid fetch properties                                                 *)
(***************************************************************************)
\* a hybrid call with a last fetch timestamp has ended, and its window search
\* failed: a request of it raised, or the call itself raised
WindowFailed ==
    /\ call.fn = "fetch_tweets_hybrid"
    /\ ret.status # "none"
    /\ call.last_fetch_timestamp_utc # NoTime
    /\ CallApi.search_since.status \in {"failed", "raised"}

\* C26: when the window search of a hybrid call with a last fetch timestamp
\* fails, the call goes on to fetch_tweets(handle, since_id) if it has a
\* since_id, and otherwise ends as failed (it raises) instead of returning a
\* list.
C26_WindowFailureFallsBackOrFails ==
    WindowFailed =>
        IF call.since_id # None
        THEN /\ Len(ret.calls) >= 2
             /\ ret.calls[1] = SearchCall(call.last_fetch_timestamp_utc)
             /\ ret.calls[2] = FetchCall(call.since_id)
        ELSE ret.status = "raised"

\* the window search a hybrid call begins with, if it begins with one: since
\* the last fetch timestamp, or over the default window when the call has
\* neither timestamp nor since_id
WindowSearched ==
    call.last_fetch_timestamp_utc # NoTime \/ call.since_id = None
WindowResult ==
    IF call.last_fetch_timestamp_utc # NoTime THEN CallApi.search_since
    ELSE CallApi.search_default

\* a hybrid call whose window search returned at least one tweet has ended
WindowReturnedTweets ==
    /\ call.fn = "fetch_tweets_hybrid"
    /\ ret.status # "none"
    /\ WindowSearched
    /\ WindowResult.status = "returned"
    /\ Len(WindowResult.tweets) > 0

\* C27: when the window search of a hybrid call returns at least one tweet,
\* the call returns exactly those tweets and has made no other Source Client
\* call: fetch_tweets is not called.
C27_WindowTweetsAreTheResult ==
    WindowReturnedTweets =>
        /\ ret.status = "returned"
        /\ ret.tweets = WindowResult.tweets
        /\ ret.calls = <<SearchCall(call.last_fetch_timestamp_utc)>>

\* the window held tweets, the call has a since_id whose fetch_tweets would
\* have returned tweets too, and only the search was made
C27_Witness ==
    /\ WindowReturnedTweets
    /\ call.since_id # None
    /\ CallApi.fetch_since.status = "returned"
    /\ Len(CallApi.fetch_since.tweets) > 0
    /\ ret.calls = <<SearchCall(call.last_fetch_timestamp_utc)>>
    /\ ret.tweets = WindowResult.tweets

\* C28: a fetch_tweets call with a since_id requests no page after a page
\* whose tweets all have an id numerically at or below since_id, whether
\* the tweet equal to since_id is on that page or not.
C28_StopsAtFirstOldPage ==
    (call.fn = "fetch_tweets" /\ call.since_id # None /\ ret.status # "none")
        => \A i \in 1..(Len(ret.fetched) - 1) :
              \E k \in 1..Len(ret.fetched[i]) :
                  StrToInt(ret.fetched[i][k]) > StrToInt(call.since_id)

(***************************************************************************)
(* Calendar properties                                                     *)
(***************************************************************************)
\* the configured start and end of the job that was scheduled, as times of day
ConfiguredStart ==
    60 * SplitInts(call.market_config.start, ":")[1]
        + SplitInts(call.market_config.start, ":")[2]
ConfiguredEnd ==
    60 * SplitInts(call.market_config.end, ":")[1]
        + SplitInts(call.market_config.end, ":")[2]

\* C29: every time the market hours job runs lies between the configured
\* start and end times of day, both included, and two runs that follow each
\* other on a day are fetch_interval_minutes apart.
C29_FiresWithinMarketHours ==
    (call.fn = "_schedule_market_hours" /\ ret.status = "scheduled"
        /\ ret.last_run # NoRun)
        => /\ ConfiguredStart <= ret.last_run
           /\ ret.last_run <= ConfiguredEnd
           /\ ret.previous_run # NoRun =>
                 ret.last_run - ret.previous_run
                    = call.market_config.fetch_interval_minutes

\* C30: while a _scheduled_refresh task of a trigger (a calendar job or
\* manual) is under way, no step begins another fire of that trigger, and a
\* fire that begins is never one for a time that has passed: a fire that
\* came due during the run is not run afterwards.
C30_FireWhileRunningDropped ==
    [][/\ \A n \in CalendarJobs \cup {"manual"} :
            running[n] >= 1 => \A b \in begun' : b.name # n
       /\ \A b \in begun' : b.run_time = now']_vars

(***************************************************************************)
(* Fires without accounts, termination of a fire                           *)
(***************************************************************************)
\* the task got as far as get_monitored_account_handles() and found no account
FoundNoAccounts ==
    /\ call.fn = "scheduled_refresh"
    /\ ret.status # "none"
    /\ ~(call.fetch_type = "market_hours" /\ ~should_fetch_today(call.today))
    /\ Len(call.accounts) = 0

\* C31: a fire of any trigger that finds no monitored account appends one row
\* to scheduler_logs and returns: refresh_brief_logic is never awaited (so no
\* Source Client call is made) and the retry loop is not entered (no attempt,
\* no backoff sleep).
C31_NoAccountsOneRowNoFetch ==
    FoundNoAccounts =>
        /\ Len(scheduler_logs) = 1
        /\ scheduler_logs[1].fetch_type = call.fetch_type
        /\ ret.status = "returned"
        /\ ret.attempt = 0
        /\ ret.outcomes = <<>>
        /\ ret.sleeps = <<>>

\* a manual fire on a holiday with no account returned after its one row
C31_Witness ==
    /\ FoundNoAccounts
    /\ call.fetch_type = "manual"
    /\ ~should_fetch_today(call.today)
    /\ call.retry.max_attempts = 3
    /\ ret.status = "returned"
    /\ Len(scheduler_logs) = 1

\* a task of _scheduled_refresh is under way: it awaits refresh_brief_logic
\* or sleeps before the next attempt
Suspended == ret.status \in {"awaiting", "sleeping"}

\* C32: every fire terminates and frees its trigger: as long as each awaited
\* call returns or raises, a task of _scheduled_refresh makes at most
\* max_attempts calls of refresh_brief_logic, is never ended by an exception
\* of such a call (it is always awaiting, sleeping or returned), returns in
\* the end, and once it has returned the same trigger can begin a new task.
C32_FireTerminates ==
    /\ [](call.fn = "scheduled_refresh" /\ ret.status # "none"
            => /\ ret.status \in {"awaiting", "sleeping", "returned"}
               /\ ret.attempt <= call.retry.max_attempts
               /\ Len(ret.outcomes) <= call.retry.max_attempts)
    /\ Suspended ~> (ret.status = "returned")
    /\ [](ret.status = "returned" /\ Len(scheduler_logs) < MaxRefires
            => ENABLED RefreshAgain)

\* a fire whose three attempts all raised has logged its error row and
\* returned, and the next fire of the trigger awaits its first attempt
C32_Witness ==
    /\ call.fn = "scheduled_refresh"
    /\ call.retry.max_attempts = 3
    /\ Len(scheduler_logs) = 1
    /\ scheduler_logs[1].status = "error"
    /\ scheduler_logs[1].retry_count = 3
    /\ ret.status = "awaiting"
    /\ ret.attempt = 1
    /\ ret.outcomes = <<>>

(***************************************************************************)
(* Test runs, manual triggers and the pause state                          *)
(***************************************************************************)
\* the clock reaches the run time of the test job in this step
TestRunDue(j) == j.name = "test" /\ now' # now /\ now' = j.next_run_time

\* C33: every test job schedule_test_job has added fires exactly once at its
\* run time, whatever pause() and resume() calls came before: in the step in
\* which the clock reaches the run time a "test" fire for that time begins,
\* and the job is gone afterwards.
C33_TestRunFiresOnce ==
    [][\A j \in manager.jobs :
          TestRunDue(j) =>
              /\ [name |-> "test", run_time |-> j.next_run_time] \in begun'
              /\ j \notin manager'.jobs]_vars

\* the account's row holds a cursor
HasCursor(row) ==
    row.last_tweet_id # None \/ row.last_fetch_timestamp_utc # NoTime

\* C34: a stored cursor is written by the cursor update at the end of a run
\* only: no step of another operation (adding an account, adding again one
\* that was removed, removing one, pause, resume, scheduling a test run)
\* changes an account_tracking row that holds a cursor.
C34_OnlyFiresWriteCursors ==
    [][\A h \in DOMAIN account_tracking :
          HasCursor(account_tracking[h])
              => /\ h \in DOMAIN account_tracking'
                 /\ account_tracking'[h] = account_tracking[h]]_vars

\* a task for a fetch type other than market_hours was begun on a Saturday,
\* a Sunday or a market holiday
OtherFireOnSkipDay ==
    /\ call.fn = "scheduled_refresh"
    /\ ret.status # "none"
    /\ call.fetch_type # "market_hours"
    /\ ~should_fetch_today(call.today)

\* C35: the weekend/holiday skip is for fetch_type market_hours only: a fire
\* of an after market, weekend, manual or test trigger on a Saturday, Sunday
\* or market holiday logs no skipped row, and goes on to its first call of
\* refresh_brief_logic as on any other day (when there are accounts and the
\* retry loop has a pass to make).
C35_SkipIsForMarketHoursOnly ==
    OtherFireOnSkipDay =>
        /\ \A i \in DOMAIN scheduler_logs : scheduler_logs[i].status # "skipped"
        /\ (Len(call.accounts) > 0 /\ call.retry.max_attempts >= 1)
              => ret.attempt >= 1

\* the weekend job's fire on a Saturday awaits its first attempt
C35_Witness ==
    /\ OtherFireOnSkipDay
    /\ call.fetch_type = "weekend"
    /\ is_weekend(call.today)
    /\ ret.status = "awaiting"
    /\ ret.attempt = 1
    /\ scheduler_logs = <<>>

\* the step begins a manual fire
ManualBegun == \E b \in begun' : b.name = "manual"

\* C36: a request to /api/scheduler/trigger starts a manual fire at once
\* whatever the pause state: it is never refused (below the number of manual
\* tasks followed), the step that begins the fire leaves the manager, its
\* pause state and config.json as they were, and while the scheduler stays
\* paused no fire other than a manual one begins.
C36_ManualFireIgnoresPause ==
    /\ [](boot > 0 /\ running["manual"] < MaxManual => ENABLED Trigger)
    /\ [][ManualBegun =>
            /\ running'["manual"] = running["manual"] + 1
            /\ manager' = manager
            /\ config_json' = config_json]_vars
    /\ [][(manager.state = "paused" /\ manager'.state = "paused")
            => \A b \in begun' : b.name = "manual"]_vars

\* a manual fire has just begun while the scheduler is paused
C36_Witness ==
    /\ manager.state = "paused"
    /\ manager.is_paused
    /\ config_json.paused
    /\ begun = {[name |-> "manual", run_time |-> now]}
    /\ running["manual"] = 1

(***************************************************************************)
(* Cursor writes within an attempt                                         *)
(***************************************************************************)
\* the task of trigger f takes this step
TaskStep(f) == fires[f].pc # "idle" /\ fires'[f].pc # fires[f].pc

\* before this step of the task of trigger f, or within it ahead of any
\* write, the fetch of the last account has ended
AllFetched(f) ==
    \/ fires[f].pc = "generate"
    \/ fires[f].pc = "sleep" /\ fires[f].idx = Len(monitored_accounts)

\* the attempt of the task of trigger f raises in this step
AttemptRaises(f) ==
    \/ fires[f].pc # "backoff" /\ fires'[f].pc = "backoff"
    \/ /\ fires'[f].pc = "idle"
       /\ LogsRow(f)
       /\ scheduler_logs'[Len(scheduler_logs')].status = "error"

\* the fetch the task of trigger f makes next raises
FetchRaises(f) ==
    \E order \in Orders, outcomes \in FireOutcomeSeqs :
        FetchAccount(fires[f], ProgramState, monitored_accounts[fires[f].idx],
                     get_session_context(monitored_accounts[fires[f].idx]),
                     order, outcomes, outcomes).raised

\* the attempt got through the fetch of the last account in this step, so
\* that a raise in it comes from the branch of the empty aggregate, after
\* its cursor update
PastLastFetch(f) ==
    /\ fires[f].pc = "sleep"
    /\ fires[f].idx = Len(monitored_accounts)
    /\ ~FetchRaises(f)

\* C37: within an attempt no account_tracking row is written before the
\* fetches of all accounts have ended, and the step of an attempt that raises
\* before the cursor update (in a fetch, or in generate_summary) leaves every
\* account's row as it was: with the steps before it writing nothing, the
\* rows are those from before the attempt.
C37_NoCursorWriteBeforeAllFetched ==
    [][/\ account_tracking' # account_tracking
            => \E f \in Triggers : TaskStep(f) /\ AllFetched(f)
       /\ \A f \in Triggers :
             (AttemptRaises(f) /\ ~PastLastFetch(f))
                 => account_tracking' = account_tracking]_vars

\* every account was fetched, tweets were found, generate_summary raised and
\* the task sleeps before its next attempt: every row is as the start of the
\* process left it
C37_Witness ==
    \E f \in Triggers :
        /\ fires[f].pc = "backoff"
        /\ fires[f].idx = Len(monitored_accounts)
        /\ Len(fires[f].all_new_tweets) > 0
        /\ fires[f].generator_calls = 1
        /\ account_tracking = migrate_from_state_json(session_context)
        /\ scheduler_logs = <<>>

(***************************************************************************)
(* update_account_tracking                                                 *)
(***************************************************************************)
\* the call of update_account_tracking has returned
TrackingUpdated == call.fn = "update_account_tracking" /\ ret.status = "returned"

\* all three fields were passed as None
NothingGiven ==
    /\ call.last_tweet_id = None
    /\ call.last_fetch_timestamp_utc = NoTime
    /\ call.last_summary_id = 0

\* the row holds each given field and, for a field passed as None, what the
\* row before held
RowUpdated(row, before) ==
    /\ row.last_tweet_id =
          IF call.last_tweet_id # None THEN call.last_tweet_id
          ELSE before.last_tweet_id
    /\ row.last_fetch_timestamp_utc =
          IF call.last_fetch_timestamp_utc # NoTime
          THEN call.last_fetch_timestamp_utc
          ELSE before.last_fetch_timestamp_utc
    /\ row.last_summary_id =
          IF call.last_summary_id # 0 THEN call.last_summary_id
          ELSE before.last_summary_id

\* C38: update_account_tracking changes only the columns passed as non-None:
\* a column passed as None keeps its stored value, a call with all three None
\* changes nothing, the rows of other accounts stay as they were, and a
\* missing row is created only when at least one column is given (it then
\* holds the given values and None elsewhere).
C38_UpdatesOnlyGivenFields ==
    TrackingUpdated =>
        /\ \A h \in DOMAIN ret.before \ {call.handle} :
              h \in DOMAIN account_tracking
                 /\ account_tracking[h] = ret.before[h]
        /\ DOMAIN account_tracking \subseteq DOMAIN ret.before \cup {call.handle}
        /\ NothingGiven => account_tracking = ret.before
        /\ call.handle \in DOMAIN ret.before
              => /\ call.handle \in DOMAIN account_tracking
                 /\ RowUpdated(account_tracking[call.handle],
                               ret.before[call.handle])
        /\ call.handle \notin DOMAIN ret.before
              => /\ call.handle \in DOMAIN account_tracking <=> ~NothingGiven
                 /\ ~NothingGiven
                      => RowUpdated(account_tracking[call.handle],
                             [last_tweet_id |-> None,
                              last_fetch_timestamp_utc |-> NoTime,
                              last_summary_id |-> 0])

\* only the timestamp was given for a row that holds an id and a summary id:
\* the timestamp is the new one and the id and the summary id are the old
C38_Witness ==
    /\ TrackingUpdated
    /\ call.last_tweet_id = None
    /\ call.last_fetch_timestamp_utc = 2
    /\ call.last_summary_id = 0
    /\ call.handle \in DOMAIN ret.before
    /\ ret.before[call.handle].last_tweet_id = IntToStr(9)
    /\ account_tracking[call.handle] =
          [last_tweet_id |-> IntToStr(9), last_fetch_timestamp_utc |-> 2,
           last_summary_id |-> 1]

====
